---- MODULE Spec2Model ----
(***************************************************************************)
(* Stock-critical evaluation engine and stock-movement ledger of the       *)
(* Covasa backend (src/src/controllers/inventario.controller.ts and the    *)
(* stock-alert endpoints).  The relational store is modelled as one record *)
(* of tables; a request handler is an operator from a store to the set of  *)
(* outcomes (new store, HTTP response) it can produce.                     *)
(*                                                                         *)
(* Conventions.  A product p has sku p; productoId is unique on            *)
(* Inventario, so the inventory of product p is named p.  Time is counted  *)
(* in minutes.  An alert is named by its key in the table `alerts`.  Of a  *)
(* row only the columns the core reads or writes are kept: an Inventario   *)
(* has no codigo or ubicacion here, so an edit of those columns alone is   *)
(* an update whose data leaves stock and minimo undefined.                 *)
(***************************************************************************)
EXTENDS Integers, Sequences, FiniteSets, TLC

(* ------------------------------ bounds -------------------------------- *)
MaxStock == 2
MaxAlerts == 2
MaxNotifs == 3
MaxMovs == 1
MaxTicks == 1
MaxRows == 2

(* ------------------------- program constants --------------------------- *)
DEFAULT_COOLDOWN_MINUTES == 360

NULL == -1
UNDEF == -2
NoAlert == 0

ProdIds == {1}
InvIds == ProdIds

\* ProductoTipo after migration 20251229155127 (in declaration order)
PRODUCTO_TIPO_VALUES == <<"Producto", "Servicio">>

TipoMovimientoStock == {"Entrada", "Salida", "Ajuste"}

(* ------------------------------ strings -------------------------------- *)
\* the characters of the strings the model uses
Chars(s) ==
  CASE s = "Producto" -> <<"P", "r", "o", "d", "u", "c", "t", "o">>
    [] s = "Servicio" -> <<"S", "e", "r", "v", "i", "c", "i", "o">>
    [] s = "producto" -> <<"p", "r", "o", "d", "u", "c", "t", "o">>
    [] s = "SERVICIO" -> <<"S", "E", "R", "V", "I", "C", "I", "O">>
    [] s = "Flete" -> <<"F", "l", "e", "t", "e">>
    [] s = "prod" -> <<"p", "r", "o", "d">>
    [] s = "otro" -> <<"o", "t", "r", "o">>
    [] OTHER -> <<>>

LowerChar(c) ==
  CASE c = "P" -> "p" [] c = "S" -> "s" [] c = "F" -> "f" [] c = "E" -> "e"
    [] c = "R" -> "r" [] c = "V" -> "v" [] c = "I" -> "i" [] c = "C" -> "c"
    [] c = "O" -> "o" [] OTHER -> c

ToLowerCase(cs) == [k \in 1..Len(cs) |-> LowerChar(cs[k])]

Includes(cs, sub) ==
  \E k \in 0..(Len(cs) - Len(sub)) :
     \A j \in 1..Len(sub) : cs[k + j] = sub[j]

FLET == <<"f", "l", "e", "t">>
PROD == <<"p", "r", "o", "d">>

Strings == {"Producto", "Servicio", "producto", "SERVICIO", "Flete", "prod", "otro", ""}

\* String(tipo ?? "").toLowerCase().includes("flet"), tabulated over Strings
FleteStrings == {s \in Strings : Includes(ToLowerCase(Chars(s)), FLET)}

isFleteTipo(tipo) == tipo \in FleteStrings

\* PRODUCTO_TIPO_VALUES.find: the first of the enum values at the positions
\* hits, or "" (no match)
FindTipo(hits) ==
  IF hits = {} THEN ""
  ELSE PRODUCTO_TIPO_VALUES[CHOOSE k \in hits : \A j \in hits : k <= j]

TipoIndex == 1..Len(PRODUCTO_TIPO_VALUES)

MapTipo(raw) ==
  LET s == Chars(raw)
      lower == ToLowerCase(s)
      exact == FindTipo({k \in TipoIndex : Chars(PRODUCTO_TIPO_VALUES[k]) = s})
      ciExact ==
        FindTipo({k \in TipoIndex : ToLowerCase(Chars(PRODUCTO_TIPO_VALUES[k])) = lower})
  IN IF s = <<>> THEN ""
     ELSE IF exact # "" THEN exact
     ELSE IF ciExact # "" THEN ciExact
     ELSE IF Includes(lower, FLET)
          THEN FindTipo({k \in TipoIndex :
                           Includes(ToLowerCase(Chars(PRODUCTO_TIPO_VALUES[k])), FLET)})
     ELSE IF Includes(lower, PROD)
          THEN FindTipo({k \in TipoIndex :
                           ~Includes(ToLowerCase(Chars(PRODUCTO_TIPO_VALUES[k])), FLET)})
     ELSE ""

MapTipoTable == [raw \in Strings |-> MapTipo(raw)]

mapTipoToPrismaEnum(raw) == MapTipoTable[raw]

(* ------------------------------- state --------------------------------- *)
VARIABLES
  productos,    \* Producto rows: [id -> [tipo]]
  inventarios,  \* Inventario rows: [id -> [productoId, stock, minimo]]
  rules,        \* StockCriticalRule rows, keyed by inventarioId
  alerts,       \* StockAlert rows, keyed by alert id
  notifs,       \* EcommerceNotificacion rows, in insertion order
  movs,         \* StockMovimiento rows, in insertion order
  now,          \* the clock (minutes)
  ticks,        \* clock advances so far
  last,         \* the last request and its response
  txs,          \* the requests in flight, one per connection
  stock0,       \* the stock the requests in flight started from
  imp           \* the import in progress: rows still to do, errores so far

vars == <<productos, inventarios, rules, alerts, notifs, movs, now, ticks, last,
          txs, stock0, imp>>

DB == [productos |-> productos, inventarios |-> inventarios, rules |-> rules,
       alerts |-> alerts, notifs |-> notifs, movs |-> movs]

EmptyFn == [x \in {} |-> 0]

Put(f, k, v) == [x \in DOMAIN f \cup {k} |-> IF x = k THEN v ELSE f[x]]
Drop(f, ks) == [x \in DOMAIN f \ ks |-> f[x]]

NoResult == [action |-> "none", reason |-> "", alertId |-> NoAlert]
Noop(reason) == [action |-> "noop", reason |-> reason, alertId |-> NoAlert]
Did(action, id) == [action |-> action, reason |-> "", alertId |-> id]

(* -------------------- STOCK CRITICO (core evaluator) ------------------- *)
\* the threshold with || in the place of ??: an override of 0 counts as none
EffectiveThresholdOr(hasRule, rule, inv) ==
  IF hasRule /\ rule.thresholdOverride # NULL /\ rule.thresholdOverride # 0
  THEN rule.thresholdOverride
  ELSE inv.minimo

EffectiveThreshold(hasRule, rule, inv) ==
  IF hasRule /\ rule.thresholdOverride # NULL THEN rule.thresholdOverride
  ELSE inv.minimo

EffectiveCooldown(hasRule, rule) ==
  IF hasRule /\ rule.cooldownMinutes # NULL THEN rule.cooldownMinutes
  ELSE DEFAULT_COOLDOWN_MINUTES

\* an evaluator for which every stock is critical
IsCriticalAlways(stock, threshold) == TRUE

\* the comparison without its boundary
IsCriticalStrict(stock, threshold) == stock < threshold

IsCritical(stock, threshold) == stock <= threshold

\* the instant taken from the alert alone, whatever the rule says
LastNotifiedAlert(hasRule, rule, alert) ==
  IF alert.lastSentAt # NULL THEN alert.lastSentAt ELSE alert.openedAt

\* rule?.lastNotifiedAt ?? activeAlert.lastSentAt ?? activeAlert.openedAt
LastNotified(hasRule, rule, alert) ==
  IF hasRule /\ rule.lastNotifiedAt # NULL THEN rule.lastNotifiedAt
  ELSE IF alert.lastSentAt # NULL THEN alert.lastSentAt
  ELSE alert.openedAt

\* the resend without a cooldown
CanResendAlways(lastAt, t, cooldownMinutes) == TRUE

CanResend(lastAt, t, cooldownMinutes) ==
  lastAt = NULL \/ lastAt < t - cooldownMinutes

\* the lookup by status instead of isActive
FindFirstOpen(d, inventarioId) ==
  LET act == {a \in DOMAIN d.alerts :
                d.alerts[a].inventarioId = inventarioId /\ d.alerts[a].status = "OPEN"}
      top == {a \in act : \A b \in act : d.alerts[b].openedAt <= d.alerts[a].openedAt}
  IN IF act = {} THEN {NoAlert} ELSE top

\* the lookup with orderBy: {openedAt: "asc"}
FindFirstOldest(d, inventarioId) ==
  LET act == {a \in DOMAIN d.alerts :
                d.alerts[a].inventarioId = inventarioId /\ d.alerts[a].isActive}
      bottom == {a \in act : \A b \in act : d.alerts[a].openedAt <= d.alerts[b].openedAt}
  IN IF act = {} THEN {NoAlert} ELSE bottom

\* tx.stockAlert.findFirst({where: {inventarioId, isActive: true},
\*                          orderBy: {openedAt: "desc"}}): the rows the store
\* may return (rows with the same openedAt come in no defined order)
FindFirstActive(d, inventarioId) ==
  LET act == {a \in DOMAIN d.alerts :
                d.alerts[a].inventarioId = inventarioId /\ d.alerts[a].isActive}
      top == {a \in act : \A b \in act : d.alerts[b].openedAt <= d.alerts[a].openedAt}
  IN IF act = {} THEN {NoAlert} ELSE top

NewAlertId(d) ==
  CHOOSE n \in 1..(Cardinality(DOMAIN d.alerts) + 1) :
     n \notin DOMAIN d.alerts /\ \A m \in 1..(n - 1) : m \in DOMAIN d.alerts

\* the new alert with its two numbers changed over
NewAlertSwapped(inventarioId, threshold, stock, t) ==
  [inventarioId |-> inventarioId, threshold |-> stock, stockAtAlert |-> threshold,
   status |-> "OPEN", isActive |-> TRUE, openedAt |-> t, lastSentAt |-> t,
   resolvedAt |-> NULL]

NewAlert(inventarioId, threshold, stock, t) ==
  [inventarioId |-> inventarioId, threshold |-> threshold, stockAtAlert |-> stock,
   status |-> "OPEN", isActive |-> TRUE, openedAt |-> t, lastSentAt |-> t,
   resolvedAt |-> NULL]

\* the evaluator without the stamp on the rule
StampRuleNever(d, inventarioId, hasRule, t) == d.rules

\* the stamp taken from a clock read a minute before the alert's
StampRuleBefore(d, inventarioId, hasRule, t) ==
  IF hasRule
  THEN [d.rules EXCEPT ![inventarioId].lastNotifiedAt = t - 1]
  ELSE d.rules

StampRule(d, inventarioId, hasRule, t) ==
  IF hasRule
  THEN [d.rules EXCEPT ![inventarioId].lastNotifiedAt = t]
  ELSE d.rules

\* the resolution that closes the status and leaves the alert active
ResolvedStatusOnly(alert, t) ==
  [alert EXCEPT !.status = "RESOLVED", !.resolvedAt = t]

Resolved(alert, t) ==
  [alert EXCEPT !.status = "RESOLVED", !.isActive = FALSE, !.resolvedAt = t]

Notificacion(inventarioId, recordatorio) ==
  [referenciaId |-> inventarioId, recordatorio |-> recordatorio]

\* an evaluator that writes no notification when it resends
NotifyOnCreate(d, inventarioId, recordatorio) ==
  IF recordatorio THEN d.notifs
  ELSE Append(d.notifs, Notificacion(inventarioId, recordatorio))

\* tx.ecommerceNotificacion.create, after the alert and the rule were written
Notify(d, inventarioId, recordatorio) ==
  Append(d.notifs, Notificacion(inventarioId, recordatorio))

\* what the evaluator does once its reads are in: inv, rule (hasRule tells
\* whether there is one) and the active alert a with its row; the writes land
\* on store d
Transition(d, inventarioId, t, inv, hasRule, rule, a, alert) ==
  LET threshold == EffectiveThreshold(hasRule, rule, inv)
      cooldownMinutes == EffectiveCooldown(hasRule, rule)
  IN IF IsCritical(inv.stock, threshold)
     THEN IF a = NoAlert
          THEN LET id == NewAlertId(d)
               IN [db |-> [d EXCEPT
                      !.alerts = Put(d.alerts, id,
                                     NewAlert(inventarioId, threshold, inv.stock, t)),
                      !.rules = StampRule(d, inventarioId, hasRule, t),
                      !.notifs = Notify(d, inventarioId, FALSE)],
                   result |-> Did("created", id)]
          ELSE IF ~CanResend(LastNotified(hasRule, rule, alert), t, cooldownMinutes)
          THEN [db |-> d, result |-> Noop("cooldown")]
          ELSE [db |-> [d EXCEPT
                      !.alerts = [d.alerts EXCEPT ![a].lastSentAt = t,
                                                  ![a].stockAtAlert = inv.stock,
                                                  ![a].threshold = threshold],
                      !.rules = StampRule(d, inventarioId, hasRule, t),
                      !.notifs = Notify(d, inventarioId, TRUE)],
                result |-> Did("resent", a)]
     ELSE IF a # NoAlert
          THEN [db |-> [d EXCEPT
                      !.alerts = [d.alerts EXCEPT ![a] = Resolved(@, t)]],
                result |-> Did("resolved", a)]
          ELSE [db |-> d, result |-> Noop("")]

NoRule ==
  [enabled |-> TRUE, thresholdOverride |-> NULL, cooldownMinutes |-> NULL,
   lastNotifiedAt |-> NULL]

ReadRule(d, inventarioId) ==
  IF inventarioId \in DOMAIN d.rules THEN d.rules[inventarioId] ELSE NoRule

ReadAlert(d, a) == IF a = NoAlert THEN NewAlert(0, 0, 0, 0) ELSE d.alerts[a]

\* the evaluator in one piece: the reads and the writes on the same store
EvaluateWith(d, inventarioId, t, a) ==
  Transition(d, inventarioId, t, d.inventarios[inventarioId],
             inventarioId \in DOMAIN d.rules, ReadRule(d, inventarioId),
             a, ReadAlert(d, a))

\* an evaluator that never looks at rule.enabled
RuleDisabledNever(hasRule, rule) == FALSE

\* if (rule && rule.enabled === false)
RuleDisabled(hasRule, rule) == hasRule /\ ~rule.enabled

\* an evaluator that throws when it finds no inventory: no outcome is
\* returned for such an id
evaluateStockCriticalTxThrows(d, inventarioId, t) ==
  IF inventarioId \notin DOMAIN d.inventarios
  THEN {}
  ELSE IF isFleteTipo(d.productos[d.inventarios[inventarioId].productoId].tipo)
  THEN {[db |-> d, result |-> Noop("producto_es_flete")]}
  ELSE IF RuleDisabled(inventarioId \in DOMAIN d.rules, ReadRule(d, inventarioId))
  THEN {[db |-> d, result |-> Noop("rule_disabled")]}
  ELSE {EvaluateWith(d, inventarioId, t, a) : a \in FindFirstActive(d, inventarioId)}

\* the outcomes of one evaluation inside a transaction on store d
evaluateStockCriticalTx(d, inventarioId, t) ==
  IF inventarioId \notin DOMAIN d.inventarios
  THEN {[db |-> d, result |-> Noop("inventario_not_found")]}
  ELSE IF isFleteTipo(d.productos[d.inventarios[inventarioId].productoId].tipo)
  THEN {[db |-> d, result |-> Noop("producto_es_flete")]}
  ELSE IF RuleDisabled(inventarioId \in DOMAIN d.rules, ReadRule(d, inventarioId))
  THEN {[db |-> d, result |-> Noop("rule_disabled")]}
  ELSE {EvaluateWith(d, inventarioId, t, a) : a \in FindFirstActive(d, inventarioId)}

evaluateStockCritical(d, inventarioId, t) == evaluateStockCriticalTx(d, inventarioId, t)

(* ------------- the evaluator of stockCritical.service.ts --------------- *)
\* tx.stockAlert.findFirst({where: {inventarioId, status: "OPEN"},
\*                          orderBy: {openedAt: "desc"}})
FindFirstStatusOpen(d, inventarioId) ==
  LET open == {a \in DOMAIN d.alerts :
                 d.alerts[a].inventarioId = inventarioId /\ d.alerts[a].status = "OPEN"}
      top == {a \in open : \A b \in open : d.alerts[b].openedAt <= d.alerts[a].openedAt}
  IN IF open = {} THEN {NoAlert} ELSE top

\* the alert the service creates: openedAt given, lastSentAt left null, and
\* isActive left to the default of the column
ServiceAlert(inventarioId, threshold, stock, t, isActive) ==
  [inventarioId |-> inventarioId, threshold |-> threshold, stockAtAlert |-> stock,
   status |-> "OPEN", isActive |-> isActive, openedAt |-> t, lastSentAt |-> NULL,
   resolvedAt |-> NULL]

\* one evaluation by the service with a the alert its findFirst returned; it
\* returns nothing, and the result says which of its branches it took
ServiceTransition(d, inventarioId, t, a, isActive) ==
  LET inv == d.inventarios[inventarioId]
      threshold == inv.minimo
  IN IF inv.stock <= threshold
     THEN IF a # NoAlert
          THEN [db |-> d, result |-> Noop("")]
          ELSE LET id == NewAlertId(d)
               IN [db |-> [d EXCEPT
                      !.alerts = Put(d.alerts, id,
                                     ServiceAlert(inventarioId, threshold, inv.stock, t,
                                                  isActive))],
                   result |-> Did("created", id)]
     ELSE IF a = NoAlert
          THEN [db |-> d, result |-> Noop("")]
          ELSE [db |-> [d EXCEPT !.alerts[a].status = "RESOLVED",
                                 !.alerts[a].resolvedAt = t],
                result |-> Did("resolved", a)]

\* evaluateStockCriticalTx of the service: the outcomes of one evaluation
serviceEvaluateStockCriticalTx(d, inventarioId, t) ==
  IF inventarioId \notin DOMAIN d.inventarios
  THEN {[db |-> d, result |-> Noop("")]}
  ELSE {ServiceTransition(d, inventarioId, t, a, isActive) :
          a \in FindFirstStatusOpen(d, inventarioId), isActive \in BOOLEAN}

(* --------------------------- request handlers -------------------------- *)
\* what the model keeps of a request and its response
Req(op, body) ==
  IF op = "createMovimientoStock" /\ body.tipo \in TipoMovimientoStock /\ body.cantidad >= 1
  THEN [id |-> body.inventarioId, tipo |-> body.tipo, cantidad |-> body.cantidad]
  ELSE IF op = "createMovimientoStock"
  THEN [id |-> body.inventarioId, tipo |-> "", cantidad |-> 0]
  ELSE IF op = "createInventario" THEN [id |-> body.productoId, tipo |-> "", cantidad |-> 0]
  ELSE IF op = "importRow" THEN [id |-> body.sku, tipo |-> "", cantidad |-> 0]
  ELSE IF op = "updateInventario"
  THEN [id |-> body.id, tipo |-> "",
        cantidad |-> IF body.data.stock # UNDEF \/ body.data.minimo # UNDEF THEN 1 ELSE 0]
  ELSE [id |-> body.id, tipo |-> "", cantidad |-> 0]

Resp(op, body, status, error, stockCritical) ==
  [op |-> op, req |-> Req(op, body), status |-> status, error |-> error,
   stockCritical |-> stockCritical]

Out(d, resp) == [db |-> d, resp |-> resp]

\* ON DELETE CASCADE of Inventario: its rule, alerts and movements go with it
\* a delete that takes the notifications of the inventory with it
CascadeDeleteNotifs(d, ids) ==
  [d EXCEPT
     !.inventarios = Drop(d.inventarios, ids),
     !.rules = Drop(d.rules, ids),
     !.alerts = Drop(d.alerts, {a \in DOMAIN d.alerts : d.alerts[a].inventarioId \in ids}),
     !.notifs = SelectSeq(d.notifs, LAMBDA n : n.referenciaId \notin ids),
     !.movs = SelectSeq(d.movs, LAMBDA m : m.inventarioId \notin ids)]

CascadeDelete(d, ids) ==
  [d EXCEPT
     !.inventarios = Drop(d.inventarios, ids),
     !.rules = Drop(d.rules, ids),
     !.alerts = Drop(d.alerts, {a \in DOMAIN d.alerts : d.alerts[a].inventarioId \in ids}),
     !.movs = SelectSeq(d.movs, LAMBDA m : m.inventarioId \notin ids)]

\* POST /productos and PATCH /productos/:id, as far as the tipo column goes
createProducto(d, p, tipo) ==
  IF p \in DOMAIN d.productos
  THEN {Out(d, Resp("createProducto", [id |-> p], 409, "P2002", NoResult))}
  ELSE {Out([d EXCEPT !.productos = Put(d.productos, p, [tipo |-> tipo])],
            Resp("createProducto", [id |-> p], 201, "", NoResult))}

updateProducto(d, p, tipo) ==
  IF p \notin DOMAIN d.productos
  THEN {Out(d, Resp("updateProducto", [id |-> p], 404, "NOT_FOUND", NoResult))}
  ELSE {Out([d EXCEPT !.productos[p].tipo = tipo],
            Resp("updateProducto", [id |-> p], 200, "", NoResult))}

\* "" (no error) or the code assertProductoNoEsFlete throws
assertProductoNoEsFlete(d, productoId) ==
  IF productoId \notin DOMAIN d.productos THEN "PRODUCTO_NOT_FOUND"
  ELSE IF isFleteTipo(d.productos[productoId].tipo) THEN "PRODUCTO_ES_FLETE"
  ELSE ""

createInventario(d, body, t) ==
  LET op == "createInventario"
      id == body.productoId
      bad == assertProductoNoEsFlete(d, body.productoId)
      d1 == [d EXCEPT !.inventarios =
               Put(d.inventarios, id,
                   [productoId |-> body.productoId, stock |-> body.stock,
                    minimo |-> body.minimo])]
  IN IF body.stock < 0 \/ body.minimo < 0
     THEN {Out(d, Resp(op, body, 400, "Validacion", NoResult))}
     ELSE IF bad # "" THEN {Out(d, Resp(op, body, 400, bad, NoResult))}
     ELSE IF id \in DOMAIN d.inventarios
     THEN {Out(d, Resp(op, body, 409, "P2002", NoResult))}
     ELSE {Out(o.db, Resp(op, body, 201, "", o.result)) :
             o \in evaluateStockCritical(d1, id, t)}

\* the update of normalizeInventarioUpdate's data: undefined fields are kept
ApplyUpdate(inv, data) ==
  [inv EXCEPT
     !.stock = IF data.stock = UNDEF THEN @ ELSE data.stock,
     !.minimo = IF data.minimo = UNDEF THEN @ ELSE data.minimo]

\* the re-evaluation that looks at minimo alone
TouchedMin(data) == data.minimo # UNDEF

TouchedStockOrMin(data) == data.stock # UNDEF \/ data.minimo # UNDEF

updateInventario(d, id, data, t) ==
  LET op == "updateInventario"
      req == [id |-> id, data |-> data]
      d1 == [d EXCEPT !.inventarios[id] = ApplyUpdate(@, data)]
  IN IF (data.stock # UNDEF /\ data.stock < 0) \/ (data.minimo # UNDEF /\ data.minimo < 0)
     THEN {Out(d, Resp(op, req, 400, "Validacion", NoResult))}
     ELSE IF id \notin DOMAIN d.inventarios
     THEN {Out(d, Resp(op, req, 404, "NOT_FOUND", NoResult))}
     ELSE IF assertProductoNoEsFlete(d, d.inventarios[id].productoId) # ""
     THEN {Out(d, Resp(op, req, 400,
                       assertProductoNoEsFlete(d, d.inventarios[id].productoId),
                       NoResult))}
     ELSE IF TouchedStockOrMin(data)
     THEN {Out(o.db, Resp(op, req, 200, "", o.result)) :
             o \in evaluateStockCritical(d1, id, t)}
     ELSE {Out(d1, Resp(op, req, 200, "", Noop("")))}

deleteInventario(d, id) ==
  IF id \notin DOMAIN d.inventarios
  THEN {Out(d, Resp("deleteInventario", [id |-> id], 404, "P2025", NoResult))}
  ELSE {Out(CascadeDelete(d, {id}),
            Resp("deleteInventario", [id |-> id], 204, "", NoResult))}

\* DELETE /productos/:id: the Inventario rows of the product go with it
\* (ON DELETE CASCADE), and with each of them what hangs from it
deleteProducto(d, p) ==
  IF p \notin DOMAIN d.productos
  THEN {Out(d, Resp("deleteProducto", [id |-> p], 404, "NOT_FOUND", NoResult))}
  ELSE {Out([CascadeDelete(d, {i \in DOMAIN d.inventarios :
                                  d.inventarios[i].productoId = p})
               EXCEPT !.productos = Drop(d.productos, {p})],
            Resp("deleteProducto", [id |-> p], 200, "", NoResult))}

\* the ledger without an absolute Ajuste: every movement a delta
NuevoStockDelta(stock, tipo, cantidad) ==
  IF tipo = "Salida" THEN stock - cantidad ELSE stock + cantidad

\* the ledger taking an Entrada for the new stock itself, as an Ajuste
NuevoStockAbsoluto(stock, tipo, cantidad) ==
  IF tipo = "Salida" THEN stock - cantidad ELSE cantidad

NuevoStock(stock, tipo, cantidad) ==
  IF tipo = "Ajuste" THEN cantidad
  ELSE IF tipo = "Salida" THEN stock - cantidad
  ELSE IF tipo = "Entrada" THEN stock + cantidad
  ELSE stock

\* the ledger without its guard
StockNegativoNever(nuevoStock) == FALSE

StockNegativo(nuevoStock) == nuevoStock < 0

\* a ledger row that keeps the quantity and not the kind
MovimientoAjuste(body) ==
  [inventarioId |-> body.inventarioId, tipo |-> "Ajuste", cantidad |-> body.cantidad]

Movimiento(body) ==
  [inventarioId |-> body.inventarioId, tipo |-> body.tipo, cantidad |-> body.cantidad]

\* a schema that lets any quantity through
InvalidBodyTipo(body) == body.tipo \notin TipoMovimientoStock

\* the bodies createMovimientoSchema.parse rejects
InvalidBody(body) == body.tipo \notin TipoMovimientoStock \/ body.cantidad < 1

createMovimientoStock(d, body, t) ==
  LET op == "createMovimientoStock"
      id == body.inventarioId
      inv == d.inventarios[id]
      nuevoStock == NuevoStock(inv.stock, body.tipo, body.cantidad)
      d1 == [d EXCEPT !.movs = Append(d.movs, Movimiento(body)),
                      !.inventarios[id].stock = nuevoStock]
  IN IF InvalidBody(body)
     THEN {Out(d, Resp(op, body, 400, "Validacion", NoResult))}
     ELSE IF id \notin DOMAIN d.inventarios
     THEN {Out(d, Resp(op, body, 404, "INV_NOT_FOUND", NoResult))}
     ELSE IF isFleteTipo(d.productos[inv.productoId].tipo)
     THEN {Out(d, Resp(op, body, 400, "PRODUCTO_ES_FLETE", NoResult))}
     ELSE IF StockNegativo(nuevoStock)
     THEN {Out(d, Resp(op, body, 400, "STOCK_NEGATIVO", NoResult))}
     ELSE {Out(o.db, Resp(op, body, 201, "", o.result)) :
             o \in evaluateStockCriticalTx(d1, id, t)}

(* ------------------------------ import --------------------------------- *)
\* the cell taken as toInt gives it, negative or not
toNonNegIntSigned(raw, def) == raw

toNonNegInt(raw, def) == IF raw < 0 THEN def ELSE raw

\* "" or the error parseImportRow reports
ParseError(obj) ==
  IF obj.sku = NULL THEN "sku es obligatorio"
  ELSE IF ~obj.nombre THEN "nombre es obligatorio"
  ELSE IF mapTipoToPrismaEnum(obj.tipo) = "" THEN "tipo invalido"
  ELSE IF ~isFleteTipo(mapTipoToPrismaEnum(obj.tipo)) /\ ~obj.codigo
  THEN "codigo es obligatorio"
  ELSE ""

\* one iteration of importInventarioExcel's loop: one row, one transaction
importRow(d, obj, t) ==
  LET op == "importRow"
      tipo == mapTipoToPrismaEnum(obj.tipo)
      stock == toNonNegInt(obj.stock, 0)
      minimo == toNonNegInt(obj.minimo, 0)
      p == obj.sku
      d1 == [d EXCEPT !.productos = Put(d.productos, p, [tipo |-> tipo])]
      d2 == IF p \in DOMAIN d1.inventarios
            THEN [d1 EXCEPT !.inventarios[p].stock = stock,
                            !.inventarios[p].minimo = minimo]
            ELSE [d1 EXCEPT !.inventarios =
                    Put(d1.inventarios, p,
                        [productoId |-> p, stock |-> stock, minimo |-> minimo])]
  IN IF ParseError(obj) # ""
     THEN {Out(d, Resp(op, obj, 0, ParseError(obj), NoResult))}
     ELSE IF ~isFleteTipo(tipo)
     THEN {Out(o.db, Resp(op, obj, 0, "", o.result)) :
             o \in evaluateStockCriticalTx(d2, p, t)}
     ELSE {Out(CascadeDelete(d1, {p} \cap DOMAIN d1.inventarios),
               Resp(op, obj, 0, "", NoResult))}

\* the loop that aborts the import at the first row in error
RemainingAbort(rows, failed) == IF failed THEN <<>> ELSE Tail(rows)

\* for (let i = 0; ...; i++) with `continue` on a parse error and the catch
\* inside the loop: the rows still to do after one row, failed or not
Remaining(rows, failed) == Tail(rows)

\* the row number counted from 1, without the header line
ExcelRowNumberIndex(total, rows) == (total - Len(rows)) + 1

\* flags.productoCreated = !existing and flags.productoUpdated = !!existing,
\* of a row whose transaction went through (existing: the product the
\* transaction found by the sku of the row)
ProductoCreated(d, obj, error) == error = "" /\ obj.sku \notin DOMAIN d.productos
ProductoUpdated(d, obj, error) == error = "" /\ obj.sku \in DOMAIN d.productos

\* const excelRowNumber = i + 2, with i counted from 0
ExcelRowNumber(total, rows) == (total - Len(rows)) + 2

\* one row of the loop with its try/catch: when the store rejects a statement
\* of the row's transaction (code: P2002, P2003 or another error) the
\* transaction is rolled back and the error is the row's outcome
importRowCatch(d, obj, t, code) ==
  IF ParseError(obj) # "" \/ code = ""
  THEN importRow(d, obj, t)
  ELSE {Out(d, Resp("importRow", obj, 0, code, NoResult))}

\* errores.push({row: excelRowNumber, error}) for a row in error
Errores(errores, n, error) ==
  IF error # "" THEN Append(errores, [row |-> n, error |-> error]) ELSE errores

(* --------------------------- stock alerts ------------------------------- *)
\* an acknowledgement without the status check: it marks whatever it finds
ackStockAlertAlways(d, id, t) ==
  IF id \notin DOMAIN d.alerts
  THEN {Out(d, Resp("ackStockAlert", [id |-> id], 404, "NOT_FOUND", NoResult))}
  ELSE {Out([d EXCEPT !.alerts[id].status = "ACK"],
            Resp("ackStockAlert", [id |-> id], 200, "", NoResult))}

\* ackStockAlert (the ackAt it stamps beside the status is read by nothing
\* and is not kept)
ackStockAlert(d, id, t) ==
  IF id \notin DOMAIN d.alerts
  THEN {Out(d, Resp("ackStockAlert", [id |-> id], 404, "NOT_FOUND", NoResult))}
  ELSE IF d.alerts[id].status # "OPEN"
  THEN {Out(d, Resp("ackStockAlert", [id |-> id], 200, "", NoResult))}
  ELSE {Out([d EXCEPT !.alerts[id].status = "ACK"],
            Resp("ackStockAlert", [id |-> id], 200, "", NoResult))}

resolveStockAlert(d, id, t) ==
  IF id \notin DOMAIN d.alerts
  THEN {Out(d, Resp("resolveStockAlert", [id |-> id], 404, "NOT_FOUND", NoResult))}
  ELSE IF d.alerts[id].status = "RESOLVED"
  THEN {Out(d, Resp("resolveStockAlert", [id |-> id], 200, "", NoResult))}
  ELSE {Out([d EXCEPT !.alerts[id].status = "RESOLVED", !.alerts[id].resolvedAt = t],
            Resp("resolveStockAlert", [id |-> id], 200, "", NoResult))}

(* ---------------- StockCriticalRule, changed from outside --------------- *)
upsertRule(d, id, enabled, thresholdOverride, cooldownMinutes) ==
  [d EXCEPT !.rules =
     Put(d.rules, id,
         [enabled |-> enabled, thresholdOverride |-> thresholdOverride,
          cooldownMinutes |-> cooldownMinutes,
          lastNotifiedAt |-> IF id \in DOMAIN d.rules
                             THEN d.rules[id].lastNotifiedAt ELSE NULL])]

deleteRule(d, id) == [d EXCEPT !.rules = Drop(d.rules, {id})]

(* ------------------------- serial executions --------------------------- *)
MaxMin == MaxStock - 1
Cantidades == 0..MaxStock
\* request bodies: every well-formed one, and one for each field zod rejects
ValidCreate == [stock : 0..MaxStock, minimo : 0..MaxMin]
CreateBodies ==
  ValidCreate \cup {[stock |-> -1, minimo |-> 0], [stock |-> 0, minimo |-> -1]}
ValidUpdate == [stock : (0..MaxStock) \cup {UNDEF}, minimo : (0..MaxMin) \cup {UNDEF}]
UpdateBodies ==
  ValidUpdate \cup {[stock |-> -1, minimo |-> UNDEF], [stock |-> UNDEF, minimo |-> -1]}
\* the rules an operator sets: enabled with or without a threshold override,
\* enabled with a cooldown of its own, or disabled
RuleConfigs ==
  [enabled : {TRUE}, thresholdOverride : {NULL} \cup (0..MaxMin), cooldownMinutes : {NULL}]
  \cup {[enabled |-> TRUE, thresholdOverride |-> NULL, cooldownMinutes |-> 0],
        [enabled |-> FALSE, thresholdOverride |-> MaxMin, cooldownMinutes |-> NULL]}
\* the alert ids a client can name: those in the table and one that is not
AlertIds == DOMAIN alerts \cup {NewAlertId(DB)}
RawTipos == {"Producto", "SERVICIO", "Flete", "prod", "otro", ""}
ClockSteps == {1, DEFAULT_COOLDOWN_MINUTES + 1}

\* a connection with no request on it
Procs == {1, 2}
NoTx ==
  [kind |-> "", tipo |-> "", cantidad |-> 0, pc |-> "done", nuevoStock |-> 0,
   inv |-> [stock |-> 0, minimo |-> 0], hasRule |-> FALSE, rule |-> NoRule,
   a |-> NoAlert, status |-> 0, error |-> "", stockCritical |-> NoResult]

\* the tables within the bounds, with a ledger of at most n rows
Within(d, n) ==
  /\ \A i \in DOMAIN d.inventarios : d.inventarios[i].stock <= MaxStock
  /\ Cardinality(DOMAIN d.alerts) <= MaxAlerts
  /\ Len(d.notifs) <= MaxNotifs
  /\ Len(d.movs) <= n

Bounded(d) == Within(d, MaxMovs)

\* the writes of an outcome reach the tables, and its response the client
WriteWithin(o, n) ==
  /\ Within(o.db, n)
  /\ productos' = o.db.productos
  /\ inventarios' = o.db.inventarios
  /\ rules' = o.db.rules
  /\ alerts' = o.db.alerts
  /\ notifs' = o.db.notifs
  /\ movs' = o.db.movs
  /\ last' = o.resp

Write(o) == Bounded(o.db) /\ WriteWithin(o, MaxMovs)

Commit(o) ==
  /\ Write(o)
  /\ UNCHANGED <<now, ticks, txs, stock0, imp>>

\* no import in progress
NoImport ==
  [pc |-> "idle", file |-> <<>>, total |-> 0, rows |-> <<>>, errores |-> <<>>,
   createdProductos |-> 0, updatedProductos |-> 0]

Init ==
  /\ productos = EmptyFn
  /\ inventarios = EmptyFn
  /\ rules = EmptyFn
  /\ alerts = EmptyFn
  /\ notifs = <<>>
  /\ movs = <<>>
  /\ now = 0
  /\ ticks = 0
  /\ last = Resp("init", [id |-> 0], 0, "", NoResult)
  /\ txs = [p \in Procs |-> NoTx]
  /\ stock0 = 0
  /\ imp = NoImport

CreateProducto ==
  \E p \in ProdIds, k \in 1..Len(PRODUCTO_TIPO_VALUES) :
    \E o \in createProducto(DB, p, PRODUCTO_TIPO_VALUES[k]) : Commit(o)

CreateInventario(bodies) ==
  \E p \in ProdIds, b \in bodies :
    \E o \in createInventario(DB, [productoId |-> p, stock |-> b.stock,
                                    minimo |-> b.minimo], now) :
      Commit(o)

UpdateInventario(bodies) ==
  \E i \in InvIds, data \in bodies :
    \E o \in updateInventario(DB, i, data, now) : Commit(o)

DeleteInventario ==
  \E i \in InvIds : \E o \in deleteInventario(DB, i) : Commit(o)

CreateMovimientoStock(cantidades) ==
  \E i \in InvIds, tp \in TipoMovimientoStock \cup {"Otro"}, c \in cantidades :
    \E o \in createMovimientoStock(DB, [inventarioId |-> i, tipo |-> tp, cantidad |-> c], now) :
      Commit(o)

ImportRow(rows) ==
  \E obj \in rows : \E o \in importRow(DB, obj, now) : Commit(o)

AckStockAlert ==
  \E a \in AlertIds : \E o \in ackStockAlert(DB, a, now) : Commit(o)

ResolveStockAlert ==
  \E a \in AlertIds : \E o \in resolveStockAlert(DB, a, now) : Commit(o)

UpsertRule(configs) ==
  \E i \in DOMAIN inventarios, r \in configs :
    Commit(Out(upsertRule(DB, i, r.enabled, r.thresholdOverride, r.cooldownMinutes),
               Resp("upsertRule", [id |-> i], 0, "", NoResult)))

DeleteRule ==
  \E i \in DOMAIN rules :
    Commit(Out(deleteRule(DB, i), Resp("deleteRule", [id |-> i], 0, "", NoResult)))

Tick(steps) ==
  \E dt \in steps :
    /\ ticks < MaxTicks
    /\ ticks' = ticks + 1
    /\ now' = now + dt
    /\ last' = Resp("tick", [id |-> 0], 0, "", NoResult)
    /\ UNCHANGED <<productos, inventarios, rules, alerts, notifs, movs, txs, stock0, imp>>

\* importInventarioExcel up to its loop: an empty sheet is refused, any other
\* starts the loop with no errores
ImportBegin(files) ==
  \E file \in files :
    /\ imp.pc # "loop"
    /\ IF file = <<>>
       THEN /\ last' = Resp("importInventarioExcel", [id |-> 0], 400, "El Excel esta vacio",
                            NoResult)
            /\ imp' = NoImport
       ELSE /\ last' = last
            /\ imp' = [NoImport EXCEPT !.pc = "loop", !.file = file,
                                       !.total = Len(file), !.rows = file]
    /\ UNCHANGED <<productos, inventarios, rules, alerts, notifs, movs, now, ticks, txs,
                   stock0>>

\* one iteration of the loop: the next row, its transaction and its catch
ImportLoop(codes) ==
  /\ imp.pc = "loop"
  /\ imp.rows # <<>>
  /\ \E code \in codes :
       \E o \in importRowCatch(DB, Head(imp.rows), now, code) :
         /\ Write(o)
         /\ imp' = [imp EXCEPT
                      !.rows = Remaining(imp.rows, o.resp.error # ""),
                      !.errores = Errores(imp.errores,
                                          ExcelRowNumber(imp.total, imp.rows),
                                          o.resp.error),
                      !.createdProductos =
                         IF ProductoCreated(DB, Head(imp.rows), o.resp.error)
                         THEN @ + 1 ELSE @,
                      !.updatedProductos =
                         IF ProductoUpdated(DB, Head(imp.rows), o.resp.error)
                         THEN @ + 1 ELSE @]
  /\ UNCHANGED <<now, ticks, txs, stock0>>

\* after the loop: res.status(200).json({ok, total, errores, ...})
ImportEnd ==
  /\ imp.pc = "loop"
  /\ imp.rows = <<>>
  /\ imp' = [imp EXCEPT !.pc = "done"]
  /\ last' = Resp("importInventarioExcel", [id |-> 0], 200, "", NoResult)
  /\ UNCHANGED <<productos, inventarios, rules, alerts, notifs, movs, now, ticks, txs,
                 stock0>>

(* every request that touches stock or alerts, on the smallest data: stock  *)
(* 0 or 1 against a minimo of 0 or an override of 1; the clock stands still *)
SmallCreate == [stock : {0, 1}, minimo : {0}]
SmallUpdate == [stock : {0, 1, UNDEF}, minimo : {0, UNDEF}]
SmallRows ==
  [sku : ProdIds, nombre : {TRUE}, codigo : {TRUE}, tipo : {"Producto", "SERVICIO"},
   stock : {0, 1}, minimo : {0}]
SmallRules ==
  {[enabled |-> FALSE, thresholdOverride |-> NULL, cooldownMinutes |-> NULL],
   [enabled |-> TRUE, thresholdOverride |-> NULL, cooldownMinutes |-> NULL],
   [enabled |-> TRUE, thresholdOverride |-> 1, cooldownMinutes |-> NULL]}

Next ==
  \/ CreateProducto
  \/ CreateInventario(SmallCreate)
  \/ UpdateInventario(SmallUpdate)
  \/ DeleteInventario
  \/ CreateMovimientoStock({1})
  \/ ImportRow(SmallRows)
  \/ AckStockAlert
  \/ ResolveStockAlert
  \/ UpsertRule(SmallRules)
  \/ DeleteRule

Spec == Init /\ [][Next]_vars

\* the rows fed to the import: well-formed rows of every stock and minimo, and
\* one row for each way parseImportRow can reject or remap a row
ImportRows ==
  [sku : ProdIds, nombre : {TRUE}, codigo : {TRUE}, tipo : {"Producto"},
   stock : 0..MaxStock, minimo : 0..MaxMin]
  \cup [sku : ProdIds, nombre : {TRUE}, codigo : {TRUE}, tipo : RawTipos,
        stock : {-1}, minimo : {-1}]
  \cup {[sku |-> NULL, nombre |-> TRUE, codigo |-> TRUE, tipo |-> "Producto",
         stock |-> 0, minimo |-> 0]}
  \cup [sku : ProdIds, nombre : {FALSE}, codigo : {TRUE}, tipo : {"Producto"},
        stock : {0}, minimo : {0}]
  \cup [sku : ProdIds, nombre : {TRUE}, codigo : {FALSE}, tipo : {"Producto"},
        stock : {0}, minimo : {0}]

(* the ledger at work: no rule, the clock stands still *)
NextMov ==
  \/ CreateProducto
  \/ CreateInventario(CreateBodies)
  \/ UpdateInventario(UpdateBodies)
  \/ DeleteInventario
  \/ CreateMovimientoStock(Cantidades)
  \/ ImportRow(ImportRows)

SpecMov == Init /\ [][NextMov]_vars

(* the evaluator at work: edits of one inventory, its rule and the clock *)
NextEval ==
  \/ CreateProducto
  \/ CreateInventario(ValidCreate)
  \/ UpdateInventario(ValidUpdate)
  \/ UpsertRule(RuleConfigs)
  \/ DeleteRule
  \/ Tick(ClockSteps)

SpecEval == Init /\ [][NextEval]_vars

(* the cooldown at work: one critical inventory, evaluated again one clock  *)
(* step later, a minute before, at, and a minute after the cooldown          *)
CoolCreate == [stock : {0}, minimo : {0, 1}]
CoolUpdate == [stock : {0, 1, UNDEF}, minimo : {UNDEF}]
CoolRules ==
  [enabled : {TRUE}, thresholdOverride : {NULL},
   cooldownMinutes : {NULL, DEFAULT_COOLDOWN_MINUTES - 1}]
CoolSteps ==
  {DEFAULT_COOLDOWN_MINUTES - 2, DEFAULT_COOLDOWN_MINUTES - 1,
   DEFAULT_COOLDOWN_MINUTES, DEFAULT_COOLDOWN_MINUTES + 1}

NextCool ==
  \/ CreateProducto
  \/ CreateInventario(CoolCreate)
  \/ UpdateInventario(CoolUpdate)
  \/ UpsertRule(CoolRules)
  \/ DeleteRule
  \/ Tick(CoolSteps)

SpecCool == Init /\ [][NextCool]_vars

(* every kind of request on one critical inventory with the default rule,  *)
(* before and after the cooldown has gone by                                 *)
StampCreate == [stock : {0}, minimo : {0}]
StampUpdate == [stock : {0, 1, UNDEF}, minimo : {UNDEF}]
StampSteps == {DEFAULT_COOLDOWN_MINUTES + 1}

NextStamp ==
  \/ CreateProducto
  \/ CreateInventario(StampCreate)
  \/ UpdateInventario(StampUpdate)
  \/ DeleteInventario
  \/ CreateMovimientoStock({1})
  \/ ImportRow([sku : ProdIds, nombre : {TRUE}, codigo : {TRUE}, tipo : {"Producto"},
                stock : {0}, minimo : {0}])
  \/ AckStockAlert
  \/ ResolveStockAlert
  \/ UpsertRule({[enabled |-> TRUE, thresholdOverride |-> NULL,
                   cooldownMinutes |-> NULL]})
  \/ DeleteRule
  \/ Tick(StampSteps)

SpecStamp == Init /\ [][NextStamp]_vars

(* the ledger at length: every request that can reach the tables of an      *)
(* inventory, with room for one movement more than elsewhere                 *)
CommitLedger(o) ==
  /\ WriteWithin(o, MaxMovs + 1)
  /\ UNCHANGED <<now, ticks, txs, stock0, imp>>

LedgerCreateProducto ==
  \E p \in ProdIds : \E o \in createProducto(DB, p, "Producto") : CommitLedger(o)

LedgerDeleteProducto ==
  \E p \in ProdIds : \E o \in deleteProducto(DB, p) : CommitLedger(o)

LedgerCreateInventario ==
  \E p \in ProdIds, b \in [stock : {1}, minimo : {0}] :
    \E o \in createInventario(DB, [productoId |-> p, stock |-> b.stock,
                                    minimo |-> b.minimo], now) :
      CommitLedger(o)

LedgerUpdateInventario ==
  \E i \in InvIds, data \in [stock : {0, UNDEF}, minimo : {0, UNDEF}] :
    \E o \in updateInventario(DB, i, data, now) : CommitLedger(o)

LedgerDeleteInventario ==
  \E i \in InvIds : \E o \in deleteInventario(DB, i) : CommitLedger(o)

LedgerMovimiento ==
  \E i \in InvIds, tp \in TipoMovimientoStock \cup {"Otro"}, c \in {0, 1} :
    \E o \in createMovimientoStock(DB, [inventarioId |-> i, tipo |-> tp, cantidad |-> c],
                                    now) :
      CommitLedger(o)

LedgerImportRow ==
  \E obj \in [sku : ProdIds, nombre : {TRUE}, codigo : {TRUE}, tipo : {"Producto"},
               stock : {1}, minimo : {0}] :
    \E o \in importRow(DB, obj, now) : CommitLedger(o)

LedgerAck ==
  \E a \in AlertIds : \E o \in ackStockAlert(DB, a, now) : CommitLedger(o)

LedgerResolve ==
  \E a \in AlertIds : \E o \in resolveStockAlert(DB, a, now) : CommitLedger(o)

NextLedger ==
  \/ LedgerCreateProducto
  \/ LedgerDeleteProducto
  \/ LedgerCreateInventario
  \/ LedgerUpdateInventario
  \/ LedgerDeleteInventario
  \/ LedgerMovimiento
  \/ LedgerImportRow
  \/ LedgerAck
  \/ LedgerResolve

SpecLedger == Init /\ [][NextLedger]_vars

(* the import of a sheet of up to MaxRows rows, row by row: rows for a       *)
(* product and for a service, rows without a name, and rows whose            *)
(* transaction the store rejects                                             *)
ImpFiles ==
  UNION {[1..n -> [sku : ProdIds, nombre : BOOLEAN, codigo : {TRUE},
                    tipo : {"Producto", "SERVICIO"}, stock : {0, 1}, minimo : {0}]] :
           n \in 0..MaxRows}

ImpCodes == {"", "P2002"}

NextImport ==
  \/ ImportBegin(ImpFiles)
  \/ ImportLoop(ImpCodes)
  \/ ImportEnd

SpecImport == Init /\ [][NextImport]_vars

(* the instant of the last notification: one critical inventory with an     *)
(* active alert whose lastSentAt and openedAt, and whose rule's             *)
(* lastNotifiedAt, are each null or set, evaluated at the cooldown and      *)
(* after it                                                                 *)
LastTimes == {NULL, 0, DEFAULT_COOLDOWN_MINUTES}

InitLast ==
  /\ productos = [p \in {1} |-> [tipo |-> "Producto"]]
  /\ inventarios = [i \in {1} |-> [productoId |-> 1, stock |-> 0, minimo |-> 0]]
  /\ rules \in {EmptyFn} \cup
               {[i \in {1} |-> [NoRule EXCEPT !.lastNotifiedAt = t]] : t \in LastTimes}
  /\ \E opened \in LastTimes, sent \in LastTimes :
       alerts = [a \in {1} |-> [NewAlert(1, 0, 0, opened) EXCEPT !.lastSentAt = sent]]
  /\ notifs = <<>>
  /\ movs = <<>>
  /\ now = DEFAULT_COOLDOWN_MINUTES
  /\ ticks = 0
  /\ last = Resp("init", [id |-> 0], 0, "", NoResult)
  /\ txs = [p \in Procs |-> NoTx]
  /\ stock0 = 0
  /\ imp = NoImport

NextLast ==
  \/ UpdateInventario([stock : {0, 1}, minimo : {UNDEF}])
  \/ AckStockAlert
  \/ DeleteRule
  \/ Tick({DEFAULT_COOLDOWN_MINUTES + 1})

SpecLast == InitLast /\ [][NextLast]_vars

(* the import as the event loop runs it: an iteration that can be taken is  *)
(* taken, and the response is sent once the rows are done                   *)
SpecImportFair ==
  /\ SpecImport
  /\ WF_vars(ImportLoop(ImpCodes))
  /\ WF_vars(ImportEnd)

(* stock and minimo below zero: every path that writes them, fed with      *)
(* negative and non-negative values; the import goes through a sheet of    *)
(* one row while the other requests come in                                *)
NextNonNeg ==
  \/ CreateProducto
  \/ CreateInventario([stock : {-1, 1}, minimo : {-1, 0}])
  \/ UpdateInventario([stock : {-1, 0, UNDEF}, minimo : {-1, 1, UNDEF}])
  \/ CreateMovimientoStock(Cantidades)
  \/ ImportBegin([1..1 -> [sku : ProdIds, nombre : {TRUE}, codigo : {TRUE},
                           tipo : {"Producto"}, stock : {-1, 1}, minimo : {-1, 0}]])
  \/ ImportLoop({""})
  \/ ImportEnd

SpecNonNeg == Init /\ [][NextNonNeg]_vars

(* the requests that leave alerts unacknowledged, on an inventory without  *)
(* a rule, before and after the cooldown                                    *)
NextService ==
  \/ CreateProducto
  \/ CreateInventario(StampCreate)
  \/ UpdateInventario(StampUpdate)
  \/ DeleteInventario
  \/ CreateMovimientoStock({1})
  \/ ResolveStockAlert
  \/ Tick(StampSteps)

SpecService == Init /\ [][NextService]_vars

(* ------------------------ concurrent requests -------------------------- *)
(* Two requests on the same inventory, each on its own connection, take    *)
(* turns at their database round trips. The tables hold what is committed. *)
(* A statement reads what is committed at the time it runs, and what its   *)
(* own transaction wrote before it (read committed); a transaction's       *)
(* writes reach the tables when it commits. The UPDATE of an Inventario    *)
(* row locks the row until the transaction ends, and a second UPDATE of    *)
(* the row waits for it.                                                    *)
TheInv == 1

Holds(p) ==
  /\ txs[p].kind = "createMovimientoStock"
  /\ txs[p].pc \in {"inv", "rule", "alert", "write"}

RowFree(p) == \A q \in Procs \ {p} : ~Holds(q)

\* the requests that can be in flight: a movement, or an update of the stock
Requests ==
  {[NoTx EXCEPT !.kind = "createMovimientoStock", !.tipo = tp, !.cantidad = c,
                !.pc = "begin"] : tp \in TipoMovimientoStock, c \in 1..MaxStock}
  \cup {[NoTx EXCEPT !.kind = "updateInventario", !.cantidad = c, !.pc = "begin"] :
          c \in 0..MaxStock}

InitConc ==
  /\ productos = [p \in {TheInv} |-> [tipo |-> "Producto"]]
  /\ \E s \in 0..MaxStock, m \in 0..MaxMin :
       /\ inventarios = [i \in {TheInv} |-> [productoId |-> TheInv, stock |-> s,
                                              minimo |-> m]]
       /\ stock0 = s
  /\ rules \in {EmptyFn, [i \in {TheInv} |-> NoRule],
                [i \in {TheInv} |-> [NoRule EXCEPT !.enabled = FALSE]]}
  /\ alerts = EmptyFn
  /\ notifs = <<>>
  /\ movs = <<>>
  /\ now = 0
  /\ ticks = 0
  /\ last = Resp("init", [id |-> 0], 0, "", NoResult)
  /\ txs \in [Procs -> Requests]
  /\ imp = NoImport

Step(p, tx) ==
  /\ txs' = [txs EXCEPT ![p] = tx]
  /\ UNCHANGED <<now, ticks, last, stock0, imp>>

Tables == <<productos, inventarios, rules, alerts, notifs, movs>>

\* the store as transaction p sees and leaves it: what is committed, and for
\* a movement past its UPDATE the row it inserted and the stock it wrote
Own(p) ==
  IF Holds(p)
  THEN [DB EXCEPT
          !.movs = Append(movs, Movimiento([inventarioId |-> TheInv,
                                             tipo |-> txs[p].tipo,
                                             cantidad |-> txs[p].cantidad])),
          !.inventarios[TheInv].stock = txs[p].nuevoStock]
  ELSE DB

\* the transaction of p ends: its writes reach the tables
End(p, d, status, error, result) ==
  /\ productos' = d.productos
  /\ inventarios' = d.inventarios
  /\ rules' = d.rules
  /\ alerts' = d.alerts
  /\ notifs' = d.notifs
  /\ movs' = d.movs
  /\ Step(p, [txs[p] EXCEPT !.pc = "done", !.status = status, !.error = error,
                            !.stockCritical = result])

\* the status of a request that went through
Ok(p) == IF txs[p].kind = "createMovimientoStock" THEN 201 ELSE 200

\* createMovimientoStock: findUnique, the checks and nuevoStock
MovRead(p) ==
  /\ txs[p].kind = "createMovimientoStock" /\ txs[p].pc = "begin"
  /\ LET inv == inventarios[TheInv]
         nuevoStock == NuevoStock(inv.stock, txs[p].tipo, txs[p].cantidad)
     IN /\ nuevoStock <= MaxStock
        /\ IF isFleteTipo(productos[inv.productoId].tipo)
           THEN End(p, DB, 400, "PRODUCTO_ES_FLETE", NoResult)
           ELSE IF StockNegativo(nuevoStock)
           THEN End(p, DB, 400, "STOCK_NEGATIVO", NoResult)
           ELSE /\ Step(p, [txs[p] EXCEPT !.pc = "create", !.nuevoStock = nuevoStock])
                /\ UNCHANGED Tables

\* createMovimientoStock: stockMovimiento.create
MovCreate(p) ==
  /\ txs[p].kind = "createMovimientoStock" /\ txs[p].pc = "create"
  /\ Step(p, [txs[p] EXCEPT !.pc = "update"])
  /\ UNCHANGED Tables

\* createMovimientoStock: inventario.update({stock: nuevoStock})
MovUpdate(p) ==
  /\ txs[p].kind = "createMovimientoStock" /\ txs[p].pc = "update"
  /\ RowFree(p)
  /\ Step(p, [txs[p] EXCEPT !.pc = "inv"])
  /\ UNCHANGED Tables

\* updateInventario: inventario.update on its own, committed at once; the
\* evaluation follows in a transaction of its own
UpdWrite(p) ==
  /\ txs[p].kind = "updateInventario" /\ txs[p].pc = "begin"
  /\ RowFree(p)
  /\ inventarios' = [inventarios EXCEPT ![TheInv].stock = txs[p].cantidad]
  /\ Step(p, [txs[p] EXCEPT !.pc = "inv"])
  /\ UNCHANGED <<productos, rules, alerts, notifs, movs>>

\* evaluateStockCriticalTx: inventario.findUnique
EvalInv(p) ==
  /\ txs[p].pc = "inv"
  /\ LET inv == Own(p).inventarios[TheInv]
     IN IF isFleteTipo(productos[inv.productoId].tipo)
        THEN End(p, Own(p), Ok(p), "", Noop("producto_es_flete"))
        ELSE /\ Step(p, [txs[p] EXCEPT !.pc = "rule",
                            !.inv = [stock |-> inv.stock, minimo |-> inv.minimo]])
             /\ UNCHANGED Tables

\* evaluateStockCriticalTx: stockCriticalRule.findUnique
EvalRule(p) ==
  /\ txs[p].pc = "rule"
  /\ LET hasRule == TheInv \in DOMAIN rules
         rule == ReadRule(DB, TheInv)
     IN IF RuleDisabled(hasRule, rule)
        THEN End(p, Own(p), Ok(p), "", Noop("rule_disabled"))
        ELSE /\ Step(p, [txs[p] EXCEPT !.pc = "alert", !.hasRule = hasRule,
                                       !.rule = rule])
             /\ UNCHANGED Tables

\* evaluateStockCriticalTx: stockAlert.findFirst
EvalAlert(p) ==
  /\ txs[p].pc = "alert"
  /\ \E a \in FindFirstActive(DB, TheInv) :
       Step(p, [txs[p] EXCEPT !.pc = "write", !.a = a])
  /\ UNCHANGED Tables

\* evaluateStockCriticalTx: the writes of the transition, and the commit
EvalWrite(p) ==
  /\ txs[p].pc = "write"
  /\ LET o == Transition(Own(p), TheInv, now, txs[p].inv, txs[p].hasRule,
                         txs[p].rule, txs[p].a, ReadAlert(DB, txs[p].a))
     IN End(p, o.db, Ok(p), "", o.result)

NextConc ==
  \E p \in Procs :
    \/ MovRead(p)
    \/ MovCreate(p)
    \/ MovUpdate(p)
    \/ UpdWrite(p)
    \/ EvalInv(p)
    \/ EvalRule(p)
    \/ EvalAlert(p)
    \/ EvalWrite(p)

SpecConc == InitConc /\ [][NextConc]_vars

(* an acknowledgement in flight beside a request on the inventory of the   *)
(* alert: ackStockAlert reads the status and updates the row in two         *)
(* statements of their own, outside any transaction                         *)
TheAlert == 1

\* ackStockAlert: findUnique({where: {id}, select: {id, status}})
AckRead(p) ==
  /\ txs[p].kind = "ackStockAlert" /\ txs[p].pc = "begin"
  /\ IF txs[p].a \notin DOMAIN alerts
     THEN End(p, DB, 404, "NOT_FOUND", NoResult)
     ELSE IF alerts[txs[p].a].status # "OPEN"
     THEN End(p, DB, 200, "", NoResult)
     ELSE /\ Step(p, [txs[p] EXCEPT !.pc = "ack"])
          /\ UNCHANGED Tables

\* ackStockAlert: update({where: {id}, data: {status: "ACK", ackAt}})
AckUpdate(p) ==
  /\ txs[p].kind = "ackStockAlert" /\ txs[p].pc = "ack"
  /\ IF txs[p].a \notin DOMAIN alerts
     THEN End(p, DB, 404, "NOT_FOUND", NoResult)
     ELSE End(p, [DB EXCEPT !.alerts[txs[p].a].status = "ACK"], 200, "", NoResult)

\* an inventory at critical stock with the alert its creation opened; one
\* connection acknowledges the alert, the other moves or edits the stock
InitAck ==
  /\ productos = [p \in {TheInv} |-> [tipo |-> "Producto"]]
  /\ \E m \in 0..MaxMin :
       /\ inventarios = [i \in {TheInv} |-> [productoId |-> TheInv, stock |-> 0,
                                              minimo |-> m]]
       /\ alerts = [a \in {TheAlert} |-> NewAlert(TheInv, m, 0, 0)]
  /\ stock0 = 0
  /\ rules \in {EmptyFn, [i \in {TheInv} |-> [NoRule EXCEPT !.lastNotifiedAt = 0]]}
  /\ notifs = <<Notificacion(TheInv, FALSE)>>
  /\ movs = <<>>
  /\ now = 0
  /\ ticks = 0
  /\ last = Resp("init", [id |-> 0], 0, "", NoResult)
  /\ \E ack \in {[NoTx EXCEPT !.kind = "ackStockAlert", !.a = TheAlert, !.pc = "begin"]},
        req \in Requests :
       txs = [p \in Procs |-> IF p = 1 THEN ack ELSE req]
  /\ imp = NoImport

NextAck ==
  \/ NextConc
  \/ \E p \in Procs : AckRead(p)
  \/ \E p \in Procs : AckUpdate(p)

SpecAck == InitAck /\ [][NextAck]_vars

(* the same two requests on an inventory that has the default rule, and    *)
(* once both are answered, edits of the stock one at a time while the      *)
(* clock moves past the cooldown                                           *)
Quiet == \A p \in Procs : txs[p].pc = "done"

RuleUpdate == [stock : {0, MaxStock}, minimo : {UNDEF}]

RuleSteps == {DEFAULT_COOLDOWN_MINUTES + 1}

InitRule ==
  /\ InitConc
  /\ rules = [i \in {TheInv} |-> NoRule]

NextRule ==
  \/ NextConc
  \/ Quiet /\ UpdateInventario(RuleUpdate)
  \/ Quiet /\ Tick(RuleSteps)

SpecRule == InitRule /\ [][NextRule]_vars

(* the two requests again with a clock that moves while they are in       *)
(* flight, so that the alerts they open differ in openedAt; once both are  *)
(* answered, edits of the stock one at a time, before and after the        *)
(* cooldown                                                                *)
\* time passes between the round trips of the requests in flight
Pass ==
  /\ ~Quiet
  /\ now = 0
  /\ now' = 1
  /\ UNCHANGED <<productos, inventarios, rules, alerts, notifs, movs, ticks, last,
                 txs, stock0, imp>>

NextTwo ==
  \/ NextConc
  \/ Pass
  \/ Quiet /\ UpdateInventario(RuleUpdate)
  \/ Quiet /\ Tick(RuleSteps)

SpecTwo == InitConc /\ [][NextTwo]_vars

(* ============================ properties ============================== *)
(* ------------------- one active alert per inventory -------------------- *)
ActiveAlerts(i) == {a \in DOMAIN alerts : alerts[a].inventarioId = i /\ alerts[a].isActive}

\* C1: in every state reached by requests whose evaluations run one after
\* another, every inventory has at most one StockAlert with isActive = true.
C1_OneActive == \A i \in InvIds : Cardinality(ActiveAlerts(i)) <= 1

\* an inventory is on its second alert, the first one resolved by the
\* evaluator, and the second, closed by hand and still active, has just kept
\* an evaluation at critical stock from opening a third
C1_Witness ==
  /\ last.stockCritical.reason = "cooldown"
  /\ \E a, b \in DOMAIN alerts :
       /\ alerts[a].inventarioId = last.req.id
       /\ alerts[b].inventarioId = last.req.id
       /\ ~alerts[a].isActive
       /\ alerts[b].isActive
       /\ alerts[b].status = "RESOLVED"

(* the vocabulary of the properties: what a step's request asked for, read *)
(* from the request the step records in last'                              *)
StockTracked(d, i) ==
  /\ i \in DOMAIN d.inventarios
  /\ d.productos[d.inventarios[i].productoId].tipo \in {"Producto", "Servicio"}

MovStep == last'.op = "createMovimientoStock" /\ last'.req.tipo # ""

\* the stock a movement asks for, by the rule of the ledger
Asked(s, tipo, q) ==
  CASE tipo = "Entrada" -> s + q
    [] tipo = "Salida" -> s - q
    [] tipo = "Ajuste" -> q

StoreUnchanged == UNCHANGED <<productos, inventarios, rules, alerts, notifs, movs>>

\* C3: every createMovimientoStock that completes leaves the stock of its
\* inventory at 0 or more; a movement on a stock-tracked inventory whose new
\* stock would be negative is rejected with STOCK_NEGATIVO, and a rejected
\* movement changes nothing: no movement row, the stock as it was, no alert,
\* rule or notification written.
C3_MovimientoNoNegativo ==
  [][MovStep =>
       LET i == last'.req.id
       IN /\ last'.status = 201 => inventarios'[i].stock >= 0
          /\ (StockTracked(DB, i)
                /\ Asked(inventarios[i].stock, last'.req.tipo, last'.req.cantidad) < 0)
               => last'.error = "STOCK_NEGATIVO"
          /\ last'.error = "STOCK_NEGATIVO" => StoreUnchanged]_vars

\* a Salida of more than the stock has just been turned down
C3_Witness ==
  /\ last.op = "createMovimientoStock"
  /\ last.error = "STOCK_NEGATIVO"
  /\ last.req.tipo = "Salida"
  /\ inventarios[last.req.id].stock < last.req.cantidad
  /\ movs = <<>>

\* C5: an accepted movement on an inventory of stock s with cantidad q sets
\* the stock to s + q (Entrada), s - q (Salida) or q (Ajuste), adds its row
\* to the ledger, and its response carries the result of the evaluator run
\* on the store that holds this new stock.
C5_NuevoStock ==
  [][(MovStep /\ last'.status = 201) =>
       LET i == last'.req.id
           asked == Asked(inventarios[i].stock, last'.req.tipo, last'.req.cantidad)
           written == [DB EXCEPT
                         !.inventarios[i].stock = asked,
                         !.movs = Append(movs, [inventarioId |-> i,
                                                 tipo |-> last'.req.tipo,
                                                 cantidad |-> last'.req.cantidad])]
       IN /\ inventarios'[i].stock = asked
          /\ movs' = written.movs
          /\ \E o \in evaluateStockCriticalTx(written, i, now) :
                /\ last'.stockCritical = o.result
                /\ DB' = o.db]_vars

\* an Ajuste has set a stock of 0 to more than the minimo and its response
\* reports the alert it resolved
C5_Witness ==
  /\ last.op = "createMovimientoStock"
  /\ last.status = 201
  /\ last.req.tipo = "Ajuste"
  /\ last.stockCritical.action = "resolved"
  /\ inventarios[last.req.id].stock = last.req.cantidad

(* ---- the evaluator's transitions, seen from the requests that run it ---- *)
\* the step is a request that wrote inventory EvId and then ran the
\* evaluator on it
EvId == last'.req.id

Evaluated ==
  \/ last'.op = "createInventario" /\ last'.status = 201
  \/ last'.op = "updateInventario" /\ last'.status = 200 /\ last'.req.cantidad = 1
  \/ last'.op = "createMovimientoStock" /\ last'.status = 201

\* what the evaluation found: the stock and minimo the request left, the rule
\* and the alerts as they were
EvStock == inventarios'[EvId].stock
EvHasRule == EvId \in DOMAIN rules
EvThreshold ==
  IF EvHasRule /\ rules[EvId].thresholdOverride # NULL
  THEN rules[EvId].thresholdOverride
  ELSE inventarios'[EvId].minimo
EvCooldown ==
  IF EvHasRule /\ rules[EvId].cooldownMinutes # NULL
  THEN rules[EvId].cooldownMinutes
  ELSE DEFAULT_COOLDOWN_MINUTES
EvActive == {a \in DOMAIN alerts : alerts[a].inventarioId = EvId /\ alerts[a].isActive}
EvSince(a) ==
  now - (IF EvHasRule /\ rules[EvId].lastNotifiedAt # NULL
         THEN rules[EvId].lastNotifiedAt
         ELSE alerts[a].lastSentAt)

\* the evaluation gets as far as an effective threshold: the inventory is
\* stock-tracked and its rule is absent or enabled
EvRuns ==
  /\ Evaluated
  /\ StockTracked(DB', EvId)
  /\ EvHasRule => rules[EvId].enabled

NotifsAdded == Len(notifs') - Len(notifs)

\* the rule of the inventory is stamped with the clock if there is one, and
\* no rule is touched otherwise
RuleStamped ==
  IF EvHasRule
  THEN rules' = [rules EXCEPT ![EvId].lastNotifiedAt = now]
  ELSE rules' = rules

\* C6: when the evaluator runs on a stock-tracked inventory whose rule is
\* absent or enabled, with stock <= effective threshold and no active alert,
\* it creates exactly one alert (isActive, OPEN, threshold = the effective
\* threshold, stockAtAlert = the stock), emits exactly one notification,
\* stamps rule.lastNotifiedAt if and only if a rule exists, and returns
\* action created with the id of the new alert.
C6_Create ==
  [][(EvRuns /\ EvStock <= EvThreshold /\ EvActive = {}) =>
       \E id \in DOMAIN alerts' \ DOMAIN alerts :
         /\ DOMAIN alerts' = DOMAIN alerts \cup {id}
         /\ \A a \in DOMAIN alerts : alerts'[a] = alerts[a]
         /\ alerts'[id].inventarioId = EvId
         /\ alerts'[id].isActive
         /\ alerts'[id].status = "OPEN"
         /\ alerts'[id].threshold = EvThreshold
         /\ alerts'[id].stockAtAlert = EvStock
         /\ NotifsAdded = 1
         /\ notifs'[Len(notifs')].referenciaId = EvId
         /\ RuleStamped
         /\ last'.stockCritical.action = "created"
         /\ last'.stockCritical.alertId = id]_vars

\* an alert has just been created under a rule with a threshold override,
\* and the rule carries the stamp
C6_Witness ==
  /\ last.op = "updateInventario"
  /\ last.stockCritical.action = "created"
  /\ last.req.id \in DOMAIN rules
  /\ rules[last.req.id].thresholdOverride # NULL
  /\ rules[last.req.id].lastNotifiedAt = now
  /\ alerts[last.stockCritical.alertId].threshold = rules[last.req.id].thresholdOverride
  /\ Len(notifs) = 1

C8_Cooldown ==
  [][(EvRuns /\ EvStock <= EvThreshold /\ EvActive # {}) =>
       \A a \in EvActive :
         EvSince(a) < EvCooldown =>
           /\ last'.stockCritical.action = "noop"
           /\ last'.stockCritical.reason = "cooldown"
           /\ UNCHANGED <<alerts, rules, notifs>>]_vars

\* an evaluation is held back by the cooldown one minute after the alert
\* was opened
C8_Witness ==
  /\ last.stockCritical.reason = "cooldown"
  /\ now = 1
  /\ \E a \in DOMAIN alerts :
       /\ alerts[a].inventarioId = last.req.id
       /\ alerts[a].isActive
       /\ alerts[a].lastSentAt = 0
  /\ Len(notifs) = 1

\* C9: when the evaluator runs with stock > effective threshold and an
\* active alert present, it sets that alert to status RESOLVED, isActive
\* false and resolvedAt = now, emits no notification, leaves
\* rule.lastNotifiedAt unchanged and returns action resolved with that
\* alert's id; with stock > effective threshold and no active alert it
\* returns noop and writes nothing.
C9_Resolve ==
  [][(EvRuns /\ EvStock > EvThreshold) =>
       /\ \A a \in EvActive :
            /\ alerts' = [alerts EXCEPT ![a].status = "RESOLVED",
                                        ![a].isActive = FALSE,
                                        ![a].resolvedAt = now]
            /\ last'.stockCritical.action = "resolved"
            /\ last'.stockCritical.alertId = a
       /\ EvActive = {} =>
            /\ last'.stockCritical.action = "noop"
            /\ alerts' = alerts
       /\ notifs' = notifs
       /\ rules' = rules]_vars

\* an alert of a ruled inventory has just been resolved, after the clock
\* moved on from the rule's stamp
C9_Witness ==
  /\ last.stockCritical.action = "resolved"
  /\ LET a == alerts[last.stockCritical.alertId]
     IN /\ a.status = "RESOLVED"
        /\ ~a.isActive
        /\ a.resolvedAt = now
        /\ a.inventarioId \in DOMAIN rules
        /\ rules[a.inventarioId].lastNotifiedAt # NULL
        /\ rules[a.inventarioId].lastNotifiedAt < now
  /\ Len(notifs) = 1

\* C10: for every effective threshold t, the evaluator takes stock = t as
\* critical and stock = t + 1 as not critical: with no active alert, an
\* evaluation at stock = t creates an alert and one at stock = t + 1
\* creates none.
C10_Boundary ==
  [][(EvRuns /\ EvActive = {}) =>
       /\ EvStock = EvThreshold =>
            /\ Cardinality(DOMAIN alerts') = Cardinality(DOMAIN alerts) + 1
            /\ last'.stockCritical.action = "created"
       /\ EvStock = EvThreshold + 1 =>
            /\ alerts' = alerts
            /\ last'.stockCritical.action = "noop"]_vars

\* both sides of the boundary have been seen at a threshold of 1: an alert
\* opened at stock 1 was resolved, and an evaluation at stock 2 with no
\* active alert has just created none
C10_Witness ==
  /\ last.op = "updateInventario"
  /\ last.req.cantidad = 1
  /\ last.stockCritical.action = "noop"
  /\ last.stockCritical.reason = ""
  /\ inventarios[last.req.id].stock = 2
  /\ inventarios[last.req.id].minimo = 1
  /\ last.req.id \notin DOMAIN rules
  /\ \E a \in DOMAIN alerts :
       /\ alerts[a].inventarioId = last.req.id
       /\ ~alerts[a].isActive
       /\ alerts[a].threshold = 1
       /\ alerts[a].stockAtAlert = 1

(* -------------------------- concurrent requests ------------------------ *)
\* C2: when two transactions that evaluate the same inventory run
\* concurrently, interleaved at their database round trips under read
\* committed, no committed state holds two StockAlerts with isActive = true
\* for that inventory.
C2_NoTwoActive ==
  ~ \E a, b \in DOMAIN alerts :
      /\ a # b
      /\ alerts[a].inventarioId = alerts[b].inventarioId
      /\ alerts[a].isActive /\ alerts[b].isActive

Accepted(p) ==
  /\ txs[p].kind = "createMovimientoStock"
  /\ txs[p].pc = "done"
  /\ txs[p].status = 201

\* the stock after the movements of p and then q, one after the other
Serial(p, q) ==
  Asked(Asked(stock0, txs[p].tipo, txs[p].cantidad), txs[q].tipo, txs[q].cantidad)

\* C4: when two createMovimientoStock transactions on the same inventory run
\* concurrently and both commit, the committed stock is the stock the two
\* movements give when applied one after the other in some order.
C4_SerialStock ==
  (Accepted(1) /\ Accepted(2)) =>
     inventarios[TheInv].stock \in {Serial(1, 2), Serial(2, 1)}

(* ------------------------------ cooldown -------------------------------- *)
\* C11: with an effective cooldown of c minutes (360 by default) and an
\* active alert last notified at time T, an evaluation of the still critical
\* inventory earlier than T + c returns noop/cooldown, and one at exactly
\* T + c or later returns resent.
C11_CooldownBoundary ==
  [][(EvRuns /\ EvStock <= EvThreshold) =>
       \A a \in EvActive :
         /\ EvSince(a) < EvCooldown =>
              /\ last'.stockCritical.action = "noop"
              /\ last'.stockCritical.reason = "cooldown"
         /\ EvSince(a) >= EvCooldown =>
              /\ last'.stockCritical.action = "resent"
              /\ last'.stockCritical.alertId = a]_vars

C13_OneUnit ==
  [][inventarios' # inventarios =>
       \E p \in Procs : txs[p].pc # "done" /\ txs'[p].pc = "done"]_vars

(* ------------------------ edits and evaluation -------------------------- *)
UpdStep == last'.op = "updateInventario" /\ last'.status = 200

\* the edit left the stored stock and minimo as they were
SameStockAndMin == inventarios'[EvId] = inventarios[EvId]

\* C14: updateInventario invokes the evaluator if and only if the edit
\* changes the stored stock or minimo: an edit of other fields only, or one
\* that supplies stock or minimo equal to the stored values, performs no
\* evaluation, writes no alert, rule or notification and answers
\* stockCritical.action = noop.
C14_EvaluatesOnChange ==
  [][(UpdStep /\ SameStockAndMin) =>
       /\ UNCHANGED <<alerts, rules, notifs>>
       /\ last'.stockCritical.action = "noop"]_vars

(* ----------------------- products without stock ------------------------- *)
\* the product of inventory i has a type other than the physical product
NotTracked(d, i) ==
  /\ i \in DOMAIN d.inventarios
  /\ d.productos[d.inventarios[i].productoId].tipo # "Producto"

\* C15: for every product type that is not stock-tracked (every value of the
\* enum other than the physical product), an evaluation of an inventory of
\* such a product answers noop with reason producto_es_flete whatever the
\* stock and threshold and writes nothing, and createMovimientoStock on it
\* is rejected with PRODUCTO_ES_FLETE.
C15_NotTracked ==
  [][/\ (Evaluated /\ NotTracked(DB', EvId)) =>
          /\ last'.stockCritical = Noop("producto_es_flete")
          /\ UNCHANGED <<alerts, rules, notifs>>
     /\ (MovStep /\ NotTracked(DB, EvId)) =>
          last'.error = "PRODUCTO_ES_FLETE"]_vars

(* ------------------------- effective threshold -------------------------- *)
\* the evaluation took the stock for critical
TookCritical ==
  \/ last'.stockCritical.action \in {"created", "resent"}
  \/ last'.stockCritical.reason = "cooldown"

\* C16: the threshold the evaluator uses is rule.thresholdOverride whenever
\* a rule exists with a non-null override (an override of 0 on an inventory
\* with a larger minimo included) and the minimo of the inventory otherwise:
\* the stock is taken for critical exactly when it is at or below that
\* value, and an alert created or resent records that value as threshold.
C16_Override ==
  [][EvRuns =>
       LET t == IF EvHasRule /\ rules[EvId].thresholdOverride # NULL
                THEN rules[EvId].thresholdOverride
                ELSE inventarios'[EvId].minimo
       IN /\ TookCritical <=> EvStock <= t
          /\ last'.stockCritical.action \in {"created", "resent"} =>
               alerts'[last'.stockCritical.alertId].threshold = t]_vars

\* an override of 0 has won over a minimo of 1: the alert opened at stock 1
\* under the minimo was resolved by an evaluation at stock 1 under the rule
C16_Witness ==
  /\ last.stockCritical.action = "resolved"
  /\ last.req.id \in DOMAIN rules
  /\ rules[last.req.id].thresholdOverride = 0
  /\ inventarios[last.req.id].minimo = 1
  /\ inventarios[last.req.id].stock = 1
  /\ alerts[last.stockCritical.alertId].threshold = 1
  /\ alerts[last.stockCritical.alertId].stockAtAlert = 1

(* ----------------------------- disabled rule ---------------------------- *)
\* C17: while the rule of an inventory has enabled = false, every evaluation
\* of that inventory answers noop with reason rule_disabled, whatever the
\* stock, and changes nothing: the alerts keep every field (an active alert
\* stays active, none is created or resolved), no notification is written
\* and the rule keeps its lastNotifiedAt.
C17_RuleDisabled ==
  [][(Evaluated /\ StockTracked(DB', EvId) /\ EvHasRule /\ ~rules[EvId].enabled) =>
       /\ last'.stockCritical = Noop("rule_disabled")
       /\ alerts' = alerts
       /\ notifs' = notifs
       /\ rules' = rules]_vars

\* under a disabled rule an evaluation has left an active alert alone although
\* the stock is above the rule's override and above the minimo
C17_Witness ==
  /\ last.stockCritical = Noop("rule_disabled")
  /\ last.req.id \in DOMAIN rules
  /\ ~rules[last.req.id].enabled
  /\ inventarios[last.req.id].stock > rules[last.req.id].thresholdOverride
  /\ inventarios[last.req.id].stock > inventarios[last.req.id].minimo
  /\ \E a \in ActiveAlerts(last.req.id) : alerts[a].status = "OPEN"

(* --------------------- no rule and the default rule --------------------- *)
\* the store of the otherwise identical inventory that has no rule
WithoutRule(d, i) == [d EXCEPT !.rules = Drop(d.rules, {i})]

\* what an edit of the stock answers and leaves behind, the rule table apart
Outside(outs) ==
  {[status |-> o.resp.status, stockCritical |-> o.resp.stockCritical,
    inventarios |-> o.db.inventarios, alerts |-> o.db.alerts,
    notifs |-> o.db.notifs] : o \in outs}

DefaultRule(i) ==
  /\ i \in DOMAIN rules
  /\ rules[i].enabled
  /\ rules[i].thresholdOverride = NULL
  /\ rules[i].cooldownMinutes = NULL

\* C18: an inventory with no rule and an otherwise identical inventory with
\* the rule {enabled: true, thresholdOverride: null, cooldownMinutes: null}
\* get the same evaluator action and the same alert and notification writes
\* at every evaluation, whatever operations came before: in every state the
\* inventory with the rule can reach, where the tables of the two differ in
\* the rule row alone, every edit of the stock answers and writes the same
\* with the rule row as without it.
C18_DefaultRule ==
  \A i \in DOMAIN inventarios :
    (Quiet /\ DefaultRule(i)) =>
      \A data \in RuleUpdate :
        Outside(updateInventario(DB, i, data, now))
          = Outside(updateInventario(WithoutRule(DB, i), i, data, now))

(* ------------------- acknowledging and resolving by hand ----------------- *)
\* a request on a stored alert went through
AlertStep(op) == last'.op = op /\ last'.status = 200

\* the same request once more, at once or later, changes nothing
Again(op) ==
  \A t \in {now', now' + 1} :
    \A o \in (IF op = "ackStockAlert"
              THEN ackStockAlert(DB', last'.req.id, t)
              ELSE resolveStockAlert(DB', last'.req.id, t)) : o.db = DB'

\* C19: ackStockAlert on an alert whose status is ACK or RESOLVED, and
\* resolveStockAlert on an alert whose status is ACK or RESOLVED, write
\* nothing: the tables are left as they were.
C19_NoWrite ==
  [][((AlertStep("ackStockAlert") \/ AlertStep("resolveStockAlert"))
        /\ alerts[last'.req.id].status \in {"ACK", "RESOLVED"}) =>
       UNCHANGED Tables]_vars

\* C19, amended: ackStockAlert writes nothing on an alert whose status is ACK
\* or RESOLVED, and resolveStockAlert writes nothing on an alert whose status
\* is RESOLVED; on an acknowledged alert resolveStockAlert does write, the
\* status RESOLVED and resolvedAt. Each of the two, applied twice in a row,
\* leaves the state the first application left.
C19_Idempotent ==
  [][LET a == last'.req.id
     IN /\ (AlertStep("ackStockAlert") /\ alerts[a].status \in {"ACK", "RESOLVED"}) =>
             UNCHANGED Tables
        /\ (AlertStep("resolveStockAlert") /\ alerts[a].status = "RESOLVED") =>
             UNCHANGED Tables
        /\ (AlertStep("resolveStockAlert") /\ alerts[a].status = "ACK") =>
             /\ alerts' = [alerts EXCEPT ![a].status = "RESOLVED", ![a].resolvedAt = now]
             /\ UNCHANGED <<productos, inventarios, rules, notifs, movs>>
        /\ AlertStep("ackStockAlert") => Again("ackStockAlert")
        /\ AlertStep("resolveStockAlert") => Again("resolveStockAlert")]_vars

\* an alert resolved by hand, which that leaves active, has been sent to
\* ackStockAlert and is still RESOLVED
C19_Witness ==
  /\ last.op = "ackStockAlert"
  /\ last.status = 200
  /\ last.req.id \in DOMAIN alerts
  /\ alerts[last.req.id].status = "RESOLVED"
  /\ alerts[last.req.id].isActive

(* ------------------------- active means unresolved ----------------------- *)
\* C20: in every reachable state an alert with isActive = true has a status
\* other than RESOLVED and no resolvedAt: no operation, the manual
\* resolveStockAlert included, leaves an alert resolved and still active.
C20_ActiveUnresolved ==
  \A a \in DOMAIN alerts :
    alerts[a].isActive => (alerts[a].status # "RESOLVED" /\ alerts[a].resolvedAt = NULL)

(* ------------------------------ import rows ------------------------------ *)
\* the import has just gone through one row of its sheet
RowStep == imp.pc = "loop" /\ imp.rows # <<>> /\ imp'.pc = "loop" /\ imp' # imp

\* C21: in importInventarioExcel each row is a unit of work of its own: a
\* row that fails validation or fails while it is persisted adds exactly one
\* entry to the error list and leaves no write of its own committed (the
\* tables stay as the earlier rows left them), a row that goes through adds
\* no entry, and either way the rows after it are still to be done.
C21_RowUnit ==
  [][RowStep =>
       LET failed == last'.error # ""
           n == Len(imp.errores)
       IN /\ failed =>
               /\ UNCHANGED Tables
               /\ Len(imp'.errores) = n + 1
               /\ SubSeq(imp'.errores, 1, n) = imp.errores
               /\ imp'.errores[n + 1].error = last'.error
          /\ ~failed => imp'.errores = imp.errores
          /\ imp'.rows = Tail(imp.rows)
          /\ imp'.total = imp.total]_vars

\* a sheet of two rows is done with its first row, rejected by the store,
\* as the one entry of the error list, and the store holds an inventory with
\* its alert and notification
C21_Witness ==
  /\ imp.pc = "done"
  /\ imp.total = 2
  /\ imp.errores = <<[row |-> 2, error |-> "P2002"]>>
  /\ last.op = "importInventarioExcel"
  /\ DOMAIN inventarios = {1}
  /\ Cardinality(DOMAIN alerts) = 1
  /\ Len(notifs) = 1

\* the product the row of this step is about
RowSku == Head(imp.rows).sku

\* C22: when an import row gives a category that is not stock-tracked to a
\* product that already has an inventory, the state committed by that row
\* holds no inventory of the product and no alert, active or not, of such an
\* inventory, and the row runs no evaluation.
C22_RowRemovesInventory ==
  [][(/\ RowStep
      /\ last'.error = ""
      /\ \E i \in DOMAIN inventarios : inventarios[i].productoId = RowSku
      /\ productos'[RowSku].tipo # "Producto") =>
       /\ \A i \in DOMAIN inventarios' : inventarios'[i].productoId # RowSku
       /\ \A a \in DOMAIN alerts' :
            \A i \in DOMAIN inventarios : inventarios[i].productoId = RowSku =>
                                           alerts'[a].inventarioId # i
       /\ last'.stockCritical = NoResult]_vars

(* ------------------------ the evaluator's answers ------------------------ *)
\* the ids an evaluation can be asked about: those of the inventories there
\* can be, and one that names none
EvalIds == InvIds \cup {0}

\* C23: the evaluator never fails with a business error: in every reachable
\* state of the store and for every inventory id it returns a result whose
\* action is noop, created, resent or resolved, and for an id that names no
\* inventory it returns noop with reason inventario_not_found and writes
\* nothing.
C23_NoBusinessError ==
  \A id \in EvalIds :
    LET outs == evaluateStockCriticalTx(DB, id, now)
    IN /\ outs # {}
       /\ \A o \in outs : o.result.action \in {"noop", "created", "resent", "resolved"}
       /\ id \notin DOMAIN inventarios =>
            outs = {[db |-> DB, result |-> Noop("inventario_not_found")]}

\* the inventory that had raised an alert has been deleted: its id names no
\* inventory any more
C23_Witness ==
  /\ last.op = "deleteInventario"
  /\ last.status = 204
  /\ last.req.id \notin DOMAIN inventarios
  /\ last.req.id \in DOMAIN productos
  /\ Len(notifs) >= 1

(* --------------------------- rejected movements -------------------------- *)
\* C24: a createMovimientoStock with an invalid body (quantity below 1, kind
\* unknown) is rejected, one that names no inventory is rejected with
\* INV_NOT_FOUND, and a movement rejected for its body, for a missing
\* inventory or for a product that is not stock-tracked (PRODUCTO_ES_FLETE)
\* leaves the whole state as it was: no movement row, no change of stock, no
\* alert, rule or notification written.
C24_RejectedMovimiento ==
  [][last'.op = "createMovimientoStock" =>
       /\ last'.req.tipo = "" => (last'.status = 400 /\ last'.error = "Validacion")
       /\ (last'.req.tipo # "" /\ last'.req.id \notin DOMAIN inventarios) =>
            (last'.status = 404 /\ last'.error = "INV_NOT_FOUND")
       /\ last'.error \in {"Validacion", "INV_NOT_FOUND", "PRODUCTO_ES_FLETE"} =>
            StoreUnchanged]_vars

\* a movement has just been turned down for an inventory that was deleted
\* after it had raised an alert
C24_Witness ==
  /\ last.op = "createMovimientoStock"
  /\ last.status = 404
  /\ last.error = "INV_NOT_FOUND"
  /\ last.req.id \in DOMAIN productos
  /\ Len(notifs) >= 1
  /\ movs = <<>>

(* ------------------- the writes of one transition ------------------------ *)
\* the alerts of inventory i that this step created or sent again
Sent(i) ==
  {a \in DOMAIN alerts' :
     /\ alerts'[a].inventarioId = i
     /\ a \notin DOMAIN alerts \/ alerts'[a].lastSentAt # alerts[a].lastSentAt}

\* the rule of inventory i has a new lastNotifiedAt after this step
Stamped(i) ==
  /\ i \in DOMAIN rules
  /\ i \in DOMAIN rules'
  /\ rules'[i].lastNotifiedAt # rules[i].lastNotifiedAt

\* C25: the writes of one evaluator transition are committed together or not
\* at all: a step that commits the creation or the resend of an alert
\* commits with it one notification row of that inventory and, when the
\* inventory has a rule, the rule's lastNotifiedAt at the instant of the
\* alert's lastSentAt; a step that creates or resends no alert commits no
\* notification and no stamp.
C25_WritesTogether ==
  [][\A i \in InvIds :
       /\ \A a \in Sent(i) :
            /\ Sent(i) = {a}
            /\ Len(notifs') = Len(notifs) + 1
            /\ SubSeq(notifs', 1, Len(notifs)) = notifs
            /\ notifs'[Len(notifs')].referenciaId = i
            /\ i \in DOMAIN rules =>
                 (i \in DOMAIN rules' /\ rules'[i].lastNotifiedAt = alerts'[a].lastSentAt)
       /\ Sent(i) = {} => (notifs' = notifs /\ ~Stamped(i))]_vars

\* a reminder has been committed for an inventory with a rule: the alert's
\* lastSentAt, the rule's lastNotifiedAt and the second notification row
C25_Witness ==
  /\ last.stockCritical.action = "resent"
  /\ now > 0
  /\ last.req.id \in DOMAIN rules
  /\ rules[last.req.id].lastNotifiedAt = now
  /\ alerts[last.stockCritical.alertId].lastSentAt = now
  /\ alerts[last.stockCritical.alertId].openedAt < now
  /\ Len(notifs) = 2
  /\ notifs[2] = Notificacion(last.req.id, TRUE)

(* --------------------------- the rule's stamp ---------------------------- *)
\* C26: rule.lastNotifiedAt changes only in an evaluator transition that
\* creates or resends an alert, and when it changes the active alert of the
\* same inventory gets its lastSentAt set to the same instant by the same
\* step; no other operation (an edit, the bookkeeping of a movement, an
\* import, an acknowledgement, a resolution by hand) writes it.
C26_StampOnlyWithAlert ==
  [][\A i \in InvIds :
       Stamped(i) =>
         /\ last'.op \in {"createInventario", "updateInventario",
                          "createMovimientoStock", "importRow"}
         /\ last'.req.id = i
         /\ last'.stockCritical.action \in {"created", "resent"}
         /\ rules'[i].lastNotifiedAt = now
         /\ LET a == last'.stockCritical.alertId
            IN /\ a \in Sent(i)
               /\ alerts'[a].isActive
               /\ alerts'[a].lastSentAt = rules'[i].lastNotifiedAt]_vars

\* the rule carries the instant of a reminder, and a resolution by hand has
\* come after it without touching the stamp
C26_Witness ==
  /\ last.op = "resolveStockAlert"
  /\ last.status = 200
  /\ now > 0
  /\ \E i \in DOMAIN rules :
       /\ rules[i].lastNotifiedAt = now
       /\ alerts[last.req.id].inventarioId = i
       /\ alerts[last.req.id].lastSentAt = now
       /\ alerts[last.req.id].openedAt < now
       /\ alerts[last.req.id].status = "RESOLVED"

(* ------------------------ created, then resolved ------------------------- *)
\* createInventario has just answered created for inventory i
JustCreated(i) ==
  /\ last.op = "createInventario"
  /\ last.status = 201
  /\ last.req.id = i
  /\ last.stockCritical.action = "created"

\* C27: for a stock-tracked product with no rule, creating an inventory with
\* stock s <= minimo m answers stockCritical.action = created, and an Entrada
\* of quantity q with s + q > m that follows at once leaves the stock at
\* s + q and answers resolved with the alertId the creation returned.
C27_CreatedThenResolved ==
  [][/\ (/\ last'.op = "createInventario"
         /\ last'.status = 201
         /\ StockTracked(DB', EvId)
         /\ EvId \notin DOMAIN rules'
         /\ inventarios'[EvId].stock <= inventarios'[EvId].minimo) =>
          last'.stockCritical.action = "created"
     /\ (/\ JustCreated(EvId)
         /\ EvId \notin DOMAIN rules
         /\ last'.op = "createMovimientoStock"
         /\ last'.req.tipo = "Entrada"
         /\ inventarios[EvId].stock + last'.req.cantidad <= MaxStock
         /\ inventarios[EvId].stock + last'.req.cantidad > inventarios[EvId].minimo) =>
          /\ last'.status = 201
          /\ inventarios'[EvId].stock = inventarios[EvId].stock + last'.req.cantidad
          /\ last'.stockCritical.action = "resolved"
          /\ last'.stockCritical.alertId = last.stockCritical.alertId]_vars

\* an Entrada of 1 has taken a stock of 1 under a minimo of 1 to 2 and
\* resolved the one alert there was
C27_Witness ==
  /\ last.op = "createMovimientoStock"
  /\ last.req.tipo = "Entrada"
  /\ last.req.cantidad = 1
  /\ last.stockCritical.action = "resolved"
  /\ inventarios[last.req.id].stock = 2
  /\ inventarios[last.req.id].minimo = 1
  /\ DOMAIN alerts = {last.stockCritical.alertId}
  /\ alerts[last.stockCritical.alertId].stockAtAlert = 1
  /\ ~alerts[last.stockCritical.alertId].isActive
  /\ Len(movs) = 1

\* the ledger rows of the inventories that are still there after the step
Surviving == SelectSeq(movs, LAMBDA m : m.inventarioId \in DOMAIN inventarios')

\* C28: the movement ledger is append-only while its inventory exists: a
\* createMovimientoStock that succeeds (201) adds exactly one row, at the end,
\* with the inventory, kind and quantity posted, and leaves the rows before it
\* as they were; every other step, a rejected movement included, leaves the
\* ledger as it was, but for the rows of an inventory the step deleted
\* (DELETE of the inventory, or of its product), which go with it.
C28_LedgerAppendOnly ==
  [][IF last'.op = "createMovimientoStock" /\ last'.status = 201
     THEN movs' = Append(movs, [inventarioId |-> last'.req.id,
                                tipo |-> last'.req.tipo,
                                cantidad |-> last'.req.cantidad])
     ELSE /\ movs' = Surviving
          /\ DOMAIN inventarios \subseteq DOMAIN inventarios' => movs' = movs]_vars

\* a second movement (a Salida) has been appended to a ledger that held an
\* Entrada, which is still its first row
C28_Witness ==
  /\ last.op = "createMovimientoStock" /\ last.status = 201
  /\ Len(movs) = 2
  /\ movs[1].tipo = "Entrada" /\ movs[2].tipo = "Salida"

\* the step is a request whose evaluation answered created or resent
Notified ==
  /\ now' = now
  /\ last'.stockCritical.action \in {"created", "resent"}

\* C29: notifications are append-only and written only by the create and
\* resend transitions of the evaluator: a request whose evaluation answers
\* created or resent adds exactly one row at the end, and every other step
\* (an evaluation that answers noop or resolved, an ack, a manual resolve, a
\* delete, a rejected request) leaves the rows as they were; so the number
\* of rows is the number of evaluations committed with created or resent.
C29_NotifsAppendOnly ==
  [][/\ Len(notifs') = Len(notifs) + (IF Notified THEN 1 ELSE 0)
     /\ SubSeq(notifs', 1, Len(notifs)) = notifs]_vars

\* an alert has been created, sent again and then resolved by an evaluation:
\* two rows, the first not a reminder and the second a reminder, none for the
\* resolution
C29_Witness ==
  /\ last.stockCritical.action = "resolved"
  /\ Len(notifs) = 2
  /\ ~notifs[1].recordatorio /\ notifs[2].recordatorio

\* the active alerts of inventory i that this step wrote to or removed
Touched(i) ==
  {a \in ActiveAlerts(i) : a \notin DOMAIN alerts' \/ alerts'[a] # alerts[a]}

\* C30: when an inventory has more than one alert with isActive = true, an
\* evaluation that resends or resolves acts on the active alert with the
\* latest openedAt and on that one alone: every other alert of the inventory
\* is after the step what it was before it, the other active ones still
\* active.
C30_LatestOnly ==
  [][\A i \in InvIds :
       Cardinality(ActiveAlerts(i)) > 1 =>
         \A a \in Touched(i) :
           /\ \A b \in ActiveAlerts(i) : alerts[b].openedAt <= alerts[a].openedAt
           /\ \A b \in DOMAIN alerts \ {a} :
                b \in DOMAIN alerts' /\ alerts'[b] = alerts[b]
           /\ a \in DOMAIN alerts'
           /\ alerts'[a].isActive => alerts'[a].lastSentAt = now]_vars

\* of two active alerts opened at different times the later one has been
\* sent again, and the earlier one is active and as it was opened
C30_Witness ==
  /\ last.stockCritical.action = "resent"
  /\ \E a, b \in DOMAIN alerts :
       /\ a = last.stockCritical.alertId
       /\ alerts[b].inventarioId = alerts[a].inventarioId
       /\ alerts[b].isActive /\ alerts[a].isActive
       /\ alerts[b].openedAt < alerts[a].openedAt
       /\ alerts[b].lastSentAt = alerts[b].openedAt
       /\ alerts[a].lastSentAt > alerts[a].openedAt

(* ------------------- the instant the cooldown runs from ------------------ *)
\* the instant of the last notification of alert a as the evaluation finds
\* it: the rule's lastNotifiedAt, or else the alert's lastSentAt, or else its
\* openedAt (NULL when none is set)
Ref(a) ==
  IF EvHasRule /\ rules[EvId].lastNotifiedAt # NULL THEN rules[EvId].lastNotifiedAt
  ELSE IF alerts[a].lastSentAt # NULL THEN alerts[a].lastSentAt
  ELSE alerts[a].openedAt

\* C31: the cooldown of an evaluation that finds a critical stock and an
\* active alert is measured from rule.lastNotifiedAt when a rule exists with
\* a value there, otherwise from the alert's lastSentAt, otherwise from its
\* openedAt: more than the cooldown after that instant the evaluation
\* resends, less than the cooldown after it the answer is noop/cooldown,
\* whatever the other two instants are; and when none of the three is set
\* the evaluation resends.
C31_LastNotified ==
  [][(EvRuns /\ EvStock <= EvThreshold) =>
       \A a \in EvActive :
         /\ (Ref(a) = NULL \/ now - Ref(a) > EvCooldown) =>
              /\ last'.stockCritical.action = "resent"
              /\ last'.stockCritical.alertId = a
         /\ (Ref(a) # NULL /\ now - Ref(a) < EvCooldown) =>
              /\ last'.stockCritical.action = "noop"
              /\ last'.stockCritical.reason = "cooldown"]_vars

\* an alert with no openedAt on an inventory without a rule has been sent
\* again before the clock moved, when an instant of 0 was not yet past the
\* cooldown: none of the three instants was set
C31_Witness ==
  /\ last.stockCritical.action = "resent"
  /\ ticks = 0
  /\ rules = EmptyFn
  /\ alerts[last.stockCritical.alertId].openedAt = NULL

(* ----------------------- the import, row after row ----------------------- *)
\* the rows of the file the import is done with
RowsDone == imp.total - Len(imp.rows)

\* the entries of the error list
ErrorEntries == {imp.errores[k] : k \in 1..Len(imp.errores)}

\* the import is at the row that comes next in the file, the rows before it
\* are each an error entry or a committed row, the entries are in file order,
\* and a row the parser refuses is there with its message and its number:
\* zero-based index i and row i + 2
ImportInOrder ==
  imp.pc \in {"loop", "done"} =>
    /\ imp.total = Len(imp.file)
    /\ imp.rows = SubSeq(imp.file, RowsDone + 1, imp.total)
    /\ Len(imp.errores) + imp.createdProductos + imp.updatedProductos = RowsDone
    /\ \A k \in 1..Len(imp.errores) :
         /\ imp.errores[k].row \in 2..(RowsDone + 1)
         /\ k > 1 => imp.errores[k - 1].row < imp.errores[k].row
    /\ \A i \in 0..(RowsDone - 1) :
         ParseError(imp.file[i + 1]) # "" =>
           [row |-> i + 2, error |-> ParseError(imp.file[i + 1])] \in ErrorEntries
    /\ imp.pc = "done" => RowsDone = imp.total

\* a row that goes through finds what the rows before it committed: it
\* creates the product of its sku when the store has none and updates it
\* when it has one, and the store has that product once afterwards
SeesEarlierRows ==
  (RowStep /\ last'.error = "") =>
    /\ last'.req.id = RowSku
    /\ RowSku \in DOMAIN productos'
    /\ IF RowSku \in DOMAIN productos
       THEN /\ imp'.updatedProductos = imp.updatedProductos + 1
            /\ imp'.createdProductos = imp.createdProductos
            /\ DOMAIN productos' = DOMAIN productos
       ELSE /\ imp'.createdProductos = imp.createdProductos + 1
            /\ imp'.updatedProductos = imp.updatedProductos
            /\ DOMAIN productos' = DOMAIN productos \cup {RowSku}

\* C32: importInventarioExcel takes the rows in file order, one transaction
\* at a time, so that a row sees what every earlier row committed (of two
\* rows with the same sku the first creates the product and the second
\* updates it); the import always comes to its end, and then the error
\* entries and the committed rows add up to the rows of the file, the entry
\* of the row at zero-based index i carrying row = i + 2.
C32_ImportInOrder ==
  /\ []ImportInOrder
  /\ [][SeesEarlierRows]_vars
  /\ (imp.pc = "loop" ~> imp.pc = "done")

\* a sheet of two rows with the same sku on an empty store is done: its
\* first row created the product and its second updated it
C32_Witness ==
  /\ imp.pc = "done"
  /\ imp.total = 2
  /\ imp.file[1].sku = imp.file[2].sku
  /\ imp.createdProductos = 1
  /\ imp.updatedProductos = 1
  /\ imp.errores = <<>>
  /\ Cardinality(DOMAIN productos) = 1

(* --------------------------- resolved is final --------------------------- *)
\* the alerts of inventory i that are RESOLVED
ResolvedAlerts(i) ==
  {a \in DOMAIN alerts : alerts[a].inventarioId = i /\ alerts[a].status = "RESOLVED"}

\* C33: RESOLVED is terminal for an alert: no step (an evaluation, an ack, a
\* manual resolve) changes any field of an alert whose status is RESOLVED,
\* and an evaluation that finds the stock critical on an inventory whose
\* alerts are all RESOLVED creates a new alert, with an id that none of them
\* has.
C33_ResolvedTerminal ==
  [][/\ \A a \in DOMAIN alerts :
          (alerts[a].status = "RESOLVED" /\ a \in DOMAIN alerts') =>
             alerts'[a] = alerts[a]
     /\ (/\ EvRuns
         /\ EvStock <= EvThreshold
         /\ \A a \in DOMAIN alerts :
              alerts[a].inventarioId = EvId => alerts[a].status = "RESOLVED") =>
          /\ last'.stockCritical.action = "created"
          /\ last'.stockCritical.alertId \notin ResolvedAlerts(EvId)]_vars

(* ------------------- an ack beside a resolving evaluation ---------------- *)
\* C34: when ackStockAlert runs beside an evaluation that resolves the same
\* alert, no interleaving of the two leaves the alert with status ACK while
\* isActive = false and resolvedAt is set: the alert is ACK and still active,
\* or it is RESOLVED.
C34_AckOrResolved ==
  \A a \in DOMAIN alerts :
    ~ (/\ alerts[a].status = "ACK"
       /\ ~alerts[a].isActive
       /\ alerts[a].resolvedAt # NULL)

(* ------------------------ the snapshot of an alert ----------------------- *)
\* C35: in every reachable state every StockAlert the evaluator wrote has
\* stockAtAlert <= threshold: the two are written only when an alert is
\* created or sent again, from the stock and the effective threshold that
\* were just compared.
C35_SnapshotCritical ==
  \A a \in DOMAIN alerts : alerts[a].stockAtAlert <= alerts[a].threshold

\* an alert opened at stock 0 has been sent again at a stock equal to the
\* threshold, and carries the stock and threshold of the resend
C35_Witness ==
  /\ last.stockCritical.action = "resent"
  /\ \E a \in DOMAIN alerts :
       /\ a = last.stockCritical.alertId
       /\ alerts[a].stockAtAlert = alerts[a].threshold
       /\ alerts[a].stockAtAlert > 0
       /\ alerts[a].stockAtAlert = inventarios[alerts[a].inventarioId].stock

(* ------------------------- nothing below zero ---------------------------- *)
\* C36: in every state reached through createInventario, updateInventario,
\* createMovimientoStock and import rows, every inventory has stock >= 0 and
\* minimo >= 0: each path validates the value as a non-negative integer, or
\* rejects it, or replaces a negative one, before it writes.
C36_NonNegative ==
  \A i \in DOMAIN inventarios :
    inventarios[i].stock >= 0 /\ inventarios[i].minimo >= 0

\* the import of a row whose stock and minimo cells are negative is done
\* without an error, and the inventory of the row has 0 for both
C36_Witness ==
  /\ imp.pc = "done"
  /\ imp.errores = <<>>
  /\ imp.file[1].stock < 0 /\ imp.file[1].minimo < 0
  /\ last.op = "importInventarioExcel"
  /\ imp.file[1].sku \in DOMAIN inventarios
  /\ inventarios[imp.file[1].sku].stock = 0
  /\ inventarios[imp.file[1].sku].minimo = 0

(* ------------------------- the two evaluators ---------------------------- *)
\* the store with stock s written to inventory i, as an evaluation finds it
WithStock(i, s) == [DB EXCEPT !.inventarios[i].stock = s]

\* what an evaluation decided: to create an alert, to resolve one and which,
\* or nothing
Decision(result) ==
  IF result.action \in {"created", "resolved"}
  THEN [action |-> result.action, alertId |-> result.alertId]
  ELSE [action |-> "none", alertId |-> NoAlert]

\* the decisions of the controller's evaluator on store d, those where the
\* cooldown has gone by left out
ControllerDecisions(d, i) ==
  {Decision(o.result) : o \in {e \in evaluateStockCriticalTx(d, i, now) :
                                  e.result.action # "resent"}}

ServiceDecisions(d, i) ==
  {Decision(o.result) : o \in serviceEvaluateStockCriticalTx(d, i, now)}

\* the controller's cooldown has not gone by for an evaluation on store d
WithinCooldown(d, i) ==
  \A e \in evaluateStockCriticalTx(d, i, now) : e.result.action # "resent"

\* C37: for a stock-tracked inventory with no rule whose alerts were never
\* acknowledged, the evaluator of stockCritical.service.ts decides as the
\* controller's evaluator does at every evaluation where the controller's
\* cooldown has not elapsed: whatever stock the evaluation finds, both create
\* an alert, or both resolve the same alert, or both do nothing.
C37_SameDecision ==
  \A i \in DOMAIN inventarios :
    (/\ StockTracked(DB, i)
     /\ i \notin DOMAIN rules
     /\ \A a \in DOMAIN alerts : alerts[a].status # "ACK") =>
      \A s \in 0..MaxStock :
        WithinCooldown(WithStock(i, s), i) =>
          ServiceDecisions(WithStock(i, s), i) = ControllerDecisions(WithStock(i, s), i)

====
